---- MODULE Spec2Model ----
(***************************************************************************)
(* A model of boardbench: the rules engines Gomoku and Connect4            *)
(* (src/boardbench/games), the MatchRunner orchestrator                    *)
(* (src/boardbench/engine/match_runner.py) and the agents                  *)
(* (src/boardbench/agents).                                                *)
(*                                                                         *)
(* A board is a function from <<row, col>> to 0..2 (0 empty, p+1 the mark  *)
(* of player p).  A Gomoku move is <<row, col>>, a Connect4 move is <<col>>*)
(* and <<>> stands for Python's None.                                      *)
(*                                                                         *)
(* The specifications of the module:                                       *)
(*   Spec      the MatchRunner: construction, run_match, logging;          *)
(*   SpecScan  get_winner / is_terminal / get_legal_moves on every board;  *)
(*   SpecMove  make_move on the boards reachable by play, with legal and   *)
(*             illegal moves;                                              *)
(*   SpecScript, SpecStubborn, SpecPass, SpecRerun                         *)
(*             the MatchRunner with scripted agents, with an agent that    *)
(*             never returns a legal move, with a game in which a player   *)
(*             can be left without a move, and with a repeated run_match;  *)
(*   SpecRandom  RandomAgents and the generator of the module `random`;    *)
(*   SpecReplay  matches of freshly seeded RandomAgents, one after another;*)
(*   SpecEnforced  EnforcedRandomAgent.make_move on lists of candidates;   *)
(*   SpecParse, SpecQuery  LLMAgent._parse_response and ._query_llm;       *)
(*   SpecText  move_to_string and string_to_move of both games;            *)
(*   SpecFixture  the rules engine on the 5x5 boards of the test fixtures; *)
(*   SpecDuel  the MatchRunner on boards where either player can win.      *)
(***************************************************************************)
EXTENDS Integers, Sequences, FiniteSets, TLC

VARIABLES
    game,            \* the Game instance: its fixed configuration
    pc,              \* position of the MatchRunner / of the caller
    agents,          \* MatchRunner.agents: the number of agents supplied
    max_moves,       \* run_match's max_moves argument
    state,           \* run_match's local `state`
    current_player,  \* run_match's local `current_player`
    move_count,      \* run_match's local `move_count`
    moves_history,   \* MatchRunner.moves_history
    states_history,  \* MatchRunner.states_history
    move_times,      \* MatchRunner.move_times
    turn,            \* what the last loop iteration did
    notes,           \* lifecycle notifications received by each agent
    result,          \* how run_match ended: the summary, or the error raised
    log,             \* the records handed to the logger
    ids,             \* which array object `state` and each snapshot is
    random,          \* the generator of Python's module `random`
    random_agents,   \* the RandomAgent objects constructed so far
    board,           \* SpecScan / SpecMove: the state handed to the game
    call             \* SpecScan / SpecMove: the last call on the game

vars == <<game, pc, agents, max_moves, state, current_player, move_count,
          moves_history, states_history, move_times, turn, notes, result,
          log, ids, random, random_agents, board, call>>

matchVars == <<pc, agents, max_moves, state, current_player, move_count,
               moves_history, states_history, move_times, turn, notes, result,
               log, ids, random, random_agents>>

None == <<>>

(***************************************************************************)
(* Game construction.                                                      *)
(***************************************************************************)
Gomoku(board_size, win_length) ==
    [name |-> "Gomoku", board_size |-> board_size, win_length |-> win_length]

Connect4(rows, cols, win_length) ==
    [name |-> "Connect4", rows |-> rows, cols |-> cols, win_length |-> win_length]

num_players(g) == 2

Rows(g) == IF g.name = "Gomoku" THEN g.board_size ELSE g.rows

Cols(g) == IF g.name = "Gomoku" THEN g.board_size ELSE g.cols

Cells(g) == (0 .. Rows(g) - 1) \X (0 .. Cols(g) - 1)

\* Python's range(n)
Range(n) == 0 .. n - 1

(***************************************************************************)
(* reset: an empty board.                                                  *)
(***************************************************************************)
Reset(g) == [x \in Cells(g) |-> 0]

(***************************************************************************)
(* get_legal_moves: a list, in the order the comprehension yields it.      *)
(***************************************************************************)
\* (r, c) for r in range(n) for c in range(m), row-major
CellSeq(n, m) == [k \in 1 .. n * m |-> <<(k - 1) \div m, (k - 1) % m>>]

GomokuGetLegalMoves(g, s, player) ==
    LET Empty(x) == s[x] = 0
    IN  SelectSeq(CellSeq(g.board_size, g.board_size), Empty)

Connect4GetLegalMovesAll(g, s, player) ==
    [k \in 1 .. g.cols |-> <<k - 1>>]

Connect4GetLegalMoves(g, s, player) ==
    LET Open(m) == s[<<0, m[1]>>] = 0
    IN  SelectSeq([k \in 1 .. g.cols |-> <<k - 1>>], Open)

\* A game variant whose legal moves depend on the player: a Gomoku in which
\* the player `confined` may only play in column 0.  Everything else,
\* is_terminal's probe with player 0 included, is Gomoku's.
ConfinedGomoku(board_size, win_length) ==
    [name |-> "Gomoku", board_size |-> board_size, win_length |-> win_length,
     confined |-> 1]

ConfinedGetLegalMoves(g, s, player) ==
    LET Open(x) == s[x] = 0 /\ (player = g.confined => x[2] = 0)
    IN  SelectSeq(CellSeq(g.board_size, g.board_size), Open)

GetLegalMoves(g, s, player) ==
    IF "confined" \in DOMAIN g THEN ConfinedGetLegalMoves(g, s, player)
    ELSE IF g.name = "Gomoku" THEN GomokuGetLegalMoves(g, s, player)
    ELSE Connect4GetLegalMoves(g, s, player)

SeqToSet(s) == {s[i] : i \in 1 .. Len(s)}

(***************************************************************************)
(* make_move.  The outcome is a record: raised (with the error class) or   *)
(* returned (with the new state), and in both cases `input`, the contents  *)
(* of the caller's array after the call.                                   *)
(***************************************************************************)
Raised(err, input) == [raised |-> TRUE, error |-> err, input |-> input]

Returned(new_state, input) == [raised |-> FALSE, new_state |-> new_state, input |-> input]

GomokuMakeMoveInPlace(g, s, move, player) ==
    LET row == move[1]
        col == move[2]
    IN  IF ~(0 <= row /\ row < g.board_size /\ 0 <= col /\ col < g.board_size)
        THEN Raised("ValueError", s)
        ELSE IF s[<<row, col>>] # 0
        THEN Raised("ValueError", s)
        ELSE Returned([s EXCEPT ![<<row, col>>] = player + 1],
                      [s EXCEPT ![<<row, col>>] = player + 1])

GomokuMakeMoveOverwrite(g, s, move, player) ==
    LET row == move[1]
        col == move[2]
    IN  IF ~(0 <= row /\ row < g.board_size /\ 0 <= col /\ col < g.board_size)
        THEN Raised("ValueError", s)
        ELSE Returned([s EXCEPT ![<<row, col>>] = player + 1], s)

GomokuMakeMoveMark(g, s, move, player) ==
    LET row == move[1]
        col == move[2]
    IN  IF ~(0 <= row /\ row < g.board_size /\ 0 <= col /\ col < g.board_size)
        THEN Raised("ValueError", s)
        ELSE IF s[<<row, col>>] # 0
        THEN Raised("ValueError", s)
        ELSE Returned([s EXCEPT ![<<row, col>>] = player + 2], s)

GomokuMakeMove(g, s, move, player) ==
    LET new_state == s                      \* state.copy()
        row == move[1]
        col == move[2]
    IN  IF ~(0 <= row /\ row < g.board_size /\ 0 <= col /\ col < g.board_size)
        THEN Raised("ValueError", s)
        ELSE IF new_state[<<row, col>>] # 0
        THEN Raised("ValueError", s)
        ELSE Returned([new_state EXCEPT ![<<row, col>>] = player + 1], s)

\* numpy indexing of an axis of length n: negative indices count from the end
NumpyIndex(i, n) == IF i < 0 THEN i + n ELSE i

NumpyInRange(i, n) == -n <= i /\ i < n

\* the rows of the column scan `for row in range(rows - 1, -1, -1)` on which
\* the cell is empty; the scan stops at the first, i.e. the largest
EmptyRows(g, s, col) == {row \in Range(g.rows) : s[<<row, col>>] = 0}

Max(S) == CHOOSE x \in S : \A y \in S : y <= x

Min(S) == CHOOSE x \in S : \A y \in S : x <= y

Connect4MakeMoveTop(g, s, move, player) ==
    LET m == move[1]
        col == NumpyIndex(m, g.cols)
    IN  IF g.rows > 0 /\ ~NumpyInRange(m, g.cols)
        THEN Raised("IndexError", s)
        ELSE IF EmptyRows(g, s, col) = {}
        THEN Returned(s, s)
        ELSE Returned([s EXCEPT ![<<Min(EmptyRows(g, s, col)), col>>] = player + 1], s)

Connect4MakeMove(g, s, move, player) ==
    LET new_state == s                      \* state.copy()
        m == move[1]
        col == NumpyIndex(m, g.cols)
    IN  IF g.rows > 0 /\ ~NumpyInRange(m, g.cols)
        THEN Raised("IndexError", s)        \* new_state[row, move]
        ELSE IF EmptyRows(g, new_state, col) = {}
        THEN Returned(new_state, s)         \* the loop ends without a break
        ELSE Returned([new_state EXCEPT
                          ![<<Max(EmptyRows(g, new_state, col)), col>>] = player + 1], s)

MakeMove(g, s, move, player) ==
    IF g.name = "Gomoku" THEN GomokuMakeMove(g, s, move, player)
    ELSE Connect4MakeMove(g, s, move, player)

(***************************************************************************)
(* get_winner: for each player mark in turn, the four window scans.        *)
(***************************************************************************)
\* np.all(...) over the window of win_length cells starting at (row, col)
\* and advancing by (dr, dc)
WindowAll(g, s, row, col, dr, dc, player_id) ==
    \A i \in Range(g.win_length) : s[<<row + i * dr, col + i * dc>>] = player_id

ScanRows(g, s, player_id) ==
    \E row \in Range(Rows(g)) : \E col \in Range(Cols(g) - g.win_length + 1) :
        WindowAll(g, s, row, col, 0, 1, player_id)

ScanCols(g, s, player_id) ==
    \E col \in Range(Cols(g)) : \E row \in Range(Rows(g) - g.win_length + 1) :
        WindowAll(g, s, row, col, 1, 0, player_id)

ScanDiagDown(g, s, player_id) ==
    \E row \in Range(Rows(g) - g.win_length + 1) :
        \E col \in Range(Cols(g) - g.win_length + 1) :
            WindowAll(g, s, row, col, 1, 1, player_id)

ScanDiagUp(g, s, player_id) ==
    \E row \in (g.win_length - 1) .. (Rows(g) - 1) :
        \E col \in Range(Cols(g) - g.win_length + 1) :
            WindowAll(g, s, row, col, -1, 1, player_id)

ScanPlayer(g, s, player_id) ==
    \/ ScanRows(g, s, player_id)
    \/ ScanCols(g, s, player_id)
    \/ ScanDiagDown(g, s, player_id)
    \/ ScanDiagUp(g, s, player_id)

\* the winner as <<p>>, or None
GetWinnerNoUpDiag(g, s) ==
    LET Scan(id) == ScanRows(g, s, id) \/ ScanCols(g, s, id) \/ ScanDiagDown(g, s, id)
    IN  IF Scan(1) THEN <<0>> ELSE IF Scan(2) THEN <<1>> ELSE None

GetWinnerSecondFirst(g, s) ==
    IF ScanPlayer(g, s, 2) THEN <<1>>
    ELSE IF ScanPlayer(g, s, 1) THEN <<0>>
    ELSE None

GetWinner(g, s) ==
    IF ScanPlayer(g, s, 1) THEN <<0>>
    ELSE IF ScanPlayer(g, s, 2) THEN <<1>>
    ELSE None

(***************************************************************************)
(* is_terminal.                                                            *)
(***************************************************************************)
IsTerminalFullOnly(g, s) == Len(GetLegalMoves(g, s, 0)) = 0

IsTerminalWinnerOnly(g, s) == GetWinner(g, s) # None

IsTerminal(g, s) ==
    IF GetWinner(g, s) # None THEN TRUE
    ELSE Len(GetLegalMoves(g, s, 0)) = 0

(***************************************************************************)
(* SpecScan: the read-only operations of a game applied to every board     *)
(* over {0, 1, 2} of the game's dimensions.                                *)
(***************************************************************************)
ScanGames == {Gomoku(3, 3), Gomoku(3, 2), Connect4(2, 4, 2)}

Boards(g) == [Cells(g) -> 0 .. 2]

NoState == [x \in {} |-> 0]

NoCall == [op |-> "none"]

\* Array objects are told apart by an identity: `state` is the array the
\* local variable refers to, history[k] the array stored as snapshot k,
\* fresh the next identity to hand out; 0 is no array.
NoIds == [state |-> 0, history |-> <<>>, fresh |-> 1]

\* The generator of the module `random`, shared by everything that calls
\* random.seed and random.choice.  Seeded, its state is the seed and the
\* number of values drawn since; never seeded, it starts from the system's
\* entropy and any value may come out.  A seed s is written <<s>>.
Unseeded == [seed |-> None, draws |-> 0]

Seeded(seed) == [seed |-> seed, draws |-> 0]

\* RandomAgent.__init__ on the generator: random.seed(seed) when a seed is
\* given
SeedIgnored(r, seed) == r

SeedWith(r, seed) == IF seed # None THEN Seeded(seed) ELSE r

Drawn(r, n) == IF r.seed = None THEN r ELSE [r EXCEPT !.draws = @ + n]

\* the k-th value below n that the generator seeded with `seed` yields: a
\* fixed function of the three, standing for the Mersenne Twister's output
RandBelow(seed, k, n) == ((seed + 1) * (k + 2) + k * k) % n

\* random.choice(seq) on a non-empty list: the values it may return
RandomChoice(r, seq) ==
    IF r.seed = None THEN {seq[i] : i \in 1 .. Len(seq)}
    ELSE {seq[RandBelow(r.seed[1], r.draws, Len(seq)) + 1]}

\* the MatchRunner variables of a specification that has no MatchRunner
MatchIdle ==
    /\ pc = "idle"
    /\ agents = 0
    /\ max_moves = 0
    /\ state = NoState
    /\ current_player = 0
    /\ move_count = 0
    /\ moves_history = <<>>
    /\ states_history = <<>>
    /\ move_times = <<>>
    /\ turn = [kind |-> "none"]
    /\ notes = <<>>
    /\ result = [status |-> "none"]
    /\ log = <<>>
    /\ ids = NoIds
    /\ random = Unseeded
    /\ random_agents = <<>>

ScanInit ==
    /\ game \in ScanGames
    /\ board \in Boards(game)
    /\ call = NoCall
    /\ MatchIdle

ScanGetWinner ==
    /\ call' = [op |-> "get_winner", winner |-> GetWinner(game, board)]
    /\ UNCHANGED <<game, board, matchVars>>

ScanIsTerminal ==
    /\ call' = [op |-> "is_terminal", terminal |-> IsTerminal(game, board)]
    /\ UNCHANGED <<game, board, matchVars>>

ScanGetLegalMoves ==
    /\ \E player \in Range(num_players(game)) :
          call' = [op |-> "get_legal_moves", player |-> player,
                   moves |-> GetLegalMoves(game, board, player)]
    /\ UNCHANGED <<game, board, matchVars>>

ScanNext == ScanGetWinner \/ ScanIsTerminal \/ ScanGetLegalMoves

SpecScan == ScanInit /\ [][ScanNext]_vars

(***************************************************************************)
(* SpecMove: make_move on the boards reachable by play from reset().  Play *)
(* applies a legal move for either player and keeps the returned state;    *)
(* Probe calls make_move with any move of MoveDomain, legal or not, and    *)
(* keeps the array it passed in.                                           *)
(***************************************************************************)
MoveGames == {Gomoku(3, 3), Connect4(2, 3, 3)}

MaxStones == 3

Stones(s) == Cardinality({x \in DOMAIN s : s[x] # 0})

\* moves an agent or a caller can name: on the board, and just off it on
\* either side (for Connect4 also the indices numpy wraps around)
MoveDomain(g) ==
    IF g.name = "Gomoku"
    THEN (-1 .. g.board_size) \X (-1 .. g.board_size)
    ELSE {<<c>> : c \in (-g.cols - 1) .. g.cols}

MakeMoveCall(move, player) ==
    [op |-> "make_move", move |-> move, player |-> player, before |-> board,
     legal |-> move \in SeqToSet(GetLegalMoves(game, board, player)),
     out |-> MakeMove(game, board, move, player)]

MoveInit ==
    /\ game \in MoveGames
    /\ board = Reset(game)
    /\ call = NoCall
    /\ MatchIdle

Play ==
    /\ Stones(board) < MaxStones
    /\ \E player \in Range(num_players(game)) :
       \E move \in SeqToSet(GetLegalMoves(game, board, player)) :
          /\ call' = MakeMoveCall(move, player)
          /\ ~call'.out.raised
          /\ board' = call'.out.new_state
    /\ UNCHANGED <<game, matchVars>>

Probe ==
    /\ \E player \in Range(num_players(game)) :
       \E move \in MoveDomain(game) :
          /\ call' = MakeMoveCall(move, player)
          /\ board' = call'.out.input
    /\ UNCHANGED <<game, matchVars>>

MoveNext == Play \/ Probe

SpecMove == MoveInit /\ [][MoveNext]_vars

(***************************************************************************)
(* Spec: the MatchRunner.                                                  *)
(*   pc = "new"         no MatchRunner yet                                 *)
(*        "failed"      __init__ raised                                    *)
(*        "NotStarted"  constructed, run_match not called                  *)
(*        "Running"     at the head of the game loop                       *)
(*        "Logging"     after the loop, before log_match                   *)
(*        "Finished"    run_match returned its result                      *)
(*        "Aborted"     run_match raised                                   *)
(***************************************************************************)
MatchGames == {Gomoku(2, 2), Gomoku(2, 3), Connect4(2, 3, 3)}

MaxAgents == 3

MaxCap == 6

\* the decision time sampled around make_move; nothing in the loop reads it
Durations == {0}

AgentName(i) == "Agent" \o ToString(i)

\* move_to_string; the Gomoku one unpacks a pair and raises on anything else
MoveToStringRaises(g, move) == g.name = "Gomoku" /\ Len(move) # 2

MoveToString(g, move) ==
    IF g.name = "Gomoku" THEN ToString(move[1]) \o "," \o ToString(move[2])
    ELSE IF move = None THEN "Column None"
    ELSE "Column " \o ToString(move[1])

\* the values an agent returns in a match: every move on the board (legal
\* or not), one off the board on either side, and None
AgentMoves(g) ==
    IF g.name = "Gomoku"
    THEN Cells(g) \cup {<<-1, 0>>, <<0, g.board_size>>, None}
    ELSE {<<c>> : c \in -1 .. g.cols} \cup {None}

\* what an agent's make_move may do: raise, or return one of AgentMoves;
\* `draws` is the number of values it takes from the module `random`
AgentResponses(g) ==
    {[kind |-> "raise", move |-> None, draws |-> 0]} \cup
    {[kind |-> "return", move |-> m, draws |-> 0] : m \in AgentMoves(g)}

\* RandomAgent.make_move: an error on an empty list, else random.choice
RandomAgentMakeMoveNone(r, legal_moves) ==
    IF legal_moves = <<>>
    THEN {[kind |-> "return", move |-> None, draws |-> 0]}
    ELSE {[kind |-> "return", move |-> m, draws |-> 1] :
             m \in RandomChoice(r, legal_moves)}

RandomAgentMakeMove(r, legal_moves) ==
    IF legal_moves = <<>>
    THEN {[kind |-> "raise", move |-> None, draws |-> 0]}
    ELSE {[kind |-> "return", move |-> m, draws |-> 1] :
             m \in RandomChoice(r, legal_moves)}

\* The agents of a match are the RandomAgents constructed last, when the
\* program has constructed any; otherwise they are arbitrary.
Responses(legal_moves) ==
    IF random_agents = <<>> THEN AgentResponses(game)
    ELSE RandomAgentMakeMove(random, legal_moves)

NoTurn ==
    [kind |-> "none", player |-> 0, response |-> "none", move |-> None,
     move_success |-> FALSE, error_message |-> "", legal_moves |-> <<>>,
     elapsed |-> 0, fed_state |-> NoState, applied |-> None]

NoNotes == [start |-> <<>>, asked |-> 0, feedback |-> 0, end |-> <<>>]

\* the program before any MatchRunner is constructed
NoRunner ==
    /\ pc = "new"
    /\ agents = 0
    /\ max_moves = 0
    /\ state = NoState
    /\ current_player = 0
    /\ move_count = 0
    /\ moves_history = <<>>
    /\ states_history = <<>>
    /\ move_times = <<>>
    /\ turn = NoTurn
    /\ notes = <<>>
    /\ result = [status |-> "none"]
    /\ log = <<>>
    /\ ids = NoIds
    /\ random = Unseeded
    /\ random_agents = <<>>
    /\ board = NoState
    /\ call = NoCall

Init == game \in MatchGames /\ NoRunner

\* __init__: the agent-count check
InitAcceptsAtLeast(g, n) == n >= num_players(g)

InitAccepts(g, n) == n = num_players(g)

New ==
    /\ pc = "new"
    /\ \E n \in 0 .. MaxAgents :
          /\ agents' = n
          /\ IF ~InitAccepts(game, n)
             THEN /\ pc' = "failed"
                  /\ UNCHANGED <<moves_history, states_history, move_times, notes,
                                 ids>>
             ELSE /\ pc' = "NotStarted"
                  /\ moves_history' = <<>>
                  /\ states_history' = <<>>
                  /\ ids' = [ids EXCEPT !.history = <<>>]
                  /\ move_times' = <<>>
                  /\ notes' = [i \in Range(n) |-> NoNotes]
    /\ UNCHANGED <<game, max_moves, state, current_player, move_count, turn,
                   result, log, random, random_agents, board, call>>

\* np.copy(a): a new array with the contents of a; `id` is the identity of
\* a and `fresh` one that no array has yet
NpCopyAlias(id, fresh) == id

NpCopy(id, fresh) == fresh

\* run_match up to the loop: reset, first snapshot, game_start for everyone
RunMatch ==
    /\ pc = "NotStarted"
    /\ \E cap \in 0 .. MaxCap : max_moves' = cap
    /\ state' = Reset(game)
    /\ states_history' = Append(states_history, Reset(game))
    /\ ids' = [state |-> ids.fresh,
               history |-> Append(ids.history, NpCopy(ids.fresh, ids.fresh + 1)),
               fresh |-> ids.fresh + 2]
    /\ notes' = [i \in DOMAIN notes |->
                    [notes[i] EXCEPT !.start = Append(@, i)]]
    /\ current_player' = 0
    /\ move_count' = 0
    /\ pc' = "Running"
    /\ UNCHANGED <<game, agents, moves_history, move_times, turn, result, log,
                   random, random_agents, board, call>>

\* the condition of the game loop
LoopConditionCapOnly == move_count < max_moves

LoopConditionNoCap == ~IsTerminal(game, state)

LoopCondition == ~IsTerminal(game, state) /\ move_count < max_moves

\* the try block around agent.make_move: the decision, its validation and
\* the error message; `propagated` tells whether an exception left the block
DecideOnBoard(g, legal_moves, resp) ==
    IF resp.kind = "raise"
    THEN [propagated |-> FALSE, move |-> None, move_success |-> FALSE,
          error_message |-> "Agent error"]
    ELSE IF resp.move \in SeqToSet(GetLegalMoves(g, Reset(g), 0))
    THEN [propagated |-> FALSE, move |-> resp.move, move_success |-> TRUE,
          error_message |-> ""]
    ELSE [propagated |-> FALSE, move |-> resp.move, move_success |-> FALSE,
          error_message |-> "not in the list of legal moves"]

DecideNoCatch(g, legal_moves, resp) ==
    IF resp.kind = "raise"
    THEN [propagated |-> TRUE, move |-> None, move_success |-> FALSE,
          error_message |-> "Agent error"]
    ELSE IF resp.move \in SeqToSet(legal_moves)
    THEN [propagated |-> FALSE, move |-> resp.move, move_success |-> TRUE,
          error_message |-> ""]
    ELSE [propagated |-> FALSE, move |-> resp.move, move_success |-> FALSE,
          error_message |-> "not in the list of legal moves"]

Decide(g, legal_moves, resp) ==
    IF resp.kind = "raise"
    THEN [propagated |-> FALSE, move |-> None, move_success |-> FALSE,
          error_message |-> "Agent error"]
    ELSE IF resp.move \in SeqToSet(legal_moves)
    THEN [propagated |-> FALSE, move |-> resp.move, move_success |-> TRUE,
          error_message |-> ""]
    ELSE IF MoveToStringRaises(g, resp.move)
    THEN [propagated |-> FALSE, move |-> resp.move, move_success |-> FALSE,
          error_message |-> "Agent error"]
    ELSE [propagated |-> FALSE, move |-> resp.move, move_success |-> FALSE,
          error_message |-> "Move " \o MoveToString(g, resp.move)
                               \o " is not in the list of legal moves"]

\* the recovery policy: random.choice(legal_moves), applied for the player
FallbackSkip(g, s, legal_moves, player, r) ==
    {[move |-> None, out |-> Returned(s, s)]}

Fallback(g, s, legal_moves, player, r) ==
    {[move |-> m, out |-> MakeMove(g, s, m, player)] :
        m \in RandomChoice(r, legal_moves)}

\* the move the loop body applies: the accepted one, or a fallback
Applied(d, legal_moves, r) ==
    IF d.move_success
    THEN {[move |-> d.move, out |-> MakeMove(game, state, d.move, current_player)]}
    ELSE Fallback(game, state, legal_moves, current_player, r)

\* the turn as the agent saw it: make_move called, move_feedback delivered
\* with the state of that moment
Asked(resp, d, legal_moves, elapsed) ==
    [kind |-> "asked", player |-> current_player, response |-> resp.kind,
     move |-> d.move, move_success |-> d.move_success,
     error_message |-> d.error_message, legal_moves |-> legal_moves,
     elapsed |-> elapsed, fed_state |-> state, applied |-> None]

\* states_history as it reads once make_move has left `input` in the array
\* it was given: a snapshot that is that very array shows the same contents
Seen(input) ==
    [k \in 1 .. Len(states_history) |->
        IF ids.history[k] = ids.state THEN input ELSE states_history[k]]

\* the branch of the loop body for a player without legal moves
PassStays ==
    /\ current_player' = current_player
    /\ turn' = [NoTurn EXCEPT !.kind = "pass", !.player = current_player]
    /\ UNCHANGED <<pc, notes, result, state, move_count, moves_history,
                   states_history, move_times, ids, random>>

PassCounted ==
    /\ current_player' = (current_player + 1) % num_players(game)
    /\ move_count' = move_count + 1
    /\ turn' = [NoTurn EXCEPT !.kind = "pass", !.player = current_player]
    /\ UNCHANGED <<pc, notes, result, state, moves_history, states_history,
                   move_times, ids, random>>

Pass ==
    /\ current_player' = (current_player + 1) % num_players(game)
    /\ turn' = [NoTurn EXCEPT !.kind = "pass", !.player = current_player]
    /\ UNCHANGED <<pc, notes, result, state, move_count, moves_history,
                   states_history, move_times, ids, random>>

\* one iteration of the game loop: a pass, or make_move, its validation,
\* move_feedback, and the accepted or the fallback move applied
Turn ==
    /\ pc = "Running"
    /\ LoopCondition
    /\ LET legal_moves == GetLegalMoves(game, state, current_player)
       IN  IF legal_moves = <<>>
           THEN Pass
           ELSE \E resp \in Responses(legal_moves) : \E elapsed \in Durations :
                LET d == Decide(game, legal_moves, resp)
                    r == Drawn(random, resp.draws)
                IN  IF d.propagated
                    THEN /\ pc' = "Aborted"
                         /\ random' = r
                         /\ result' = [status |-> "raised", error |-> "agent"]
                         /\ notes' = [notes EXCEPT ![current_player].asked = @ + 1]
                         /\ turn' = [Asked(resp, d, legal_moves, elapsed) EXCEPT
                                       !.fed_state = NoState]
                         /\ UNCHANGED <<current_player, state, move_count, moves_history,
                                        states_history, move_times, ids>>
                    ELSE
                /\ notes' = [notes EXCEPT ![current_player].asked = @ + 1,
                                          ![current_player].feedback = @ + 1]
                /\ IF d.move_success
                   THEN /\ moves_history' = Append(moves_history,
                              [player |-> current_player,
                               agent_name |-> AgentName(current_player),
                               move |-> MoveToString(game, d.move),
                               time_taken |-> elapsed])
                        /\ move_times' = Append(move_times, elapsed)
                   ELSE UNCHANGED <<moves_history, move_times>>
                /\ random' = IF d.move_success THEN r ELSE Drawn(r, 1)
                /\ \E a \in Applied(d, legal_moves, r) :
                      IF a.out.raised
                      THEN /\ pc' = "Aborted"
                           /\ result' = [status |-> "raised", error |-> a.out.error]
                           /\ turn' = Asked(resp, d, legal_moves, elapsed)
                           /\ UNCHANGED <<state, states_history, current_player,
                                          move_count, ids>>
                      ELSE /\ state' = a.out.new_state
                           /\ states_history' = Append(Seen(a.out.input), a.out.new_state)
                           /\ ids' = [state |-> ids.fresh,
                                      history |-> Append(ids.history,
                                                    NpCopy(ids.fresh, ids.fresh + 1)),
                                      fresh |-> ids.fresh + 2]
                           /\ current_player' = (current_player + 1) % num_players(game)
                           /\ move_count' = move_count + 1
                           /\ turn' = [Asked(resp, d, legal_moves, elapsed) EXCEPT
                                         !.kind = IF d.move_success THEN "accepted"
                                                  ELSE "rejected",
                                         !.applied = a.move]
                           /\ UNCHANGED <<pc, result>>
    /\ UNCHANGED <<game, agents, max_moves, log, random_agents, board, call>>

RECURSIVE SumSeq(_)
SumSeq(q) == IF q = <<>> THEN 0 ELSE Head(q) + SumSeq(Tail(q))

\* after the loop: the winner, game_end for everyone, the result summary
GameOverUnlessCapped ==
    /\ pc = "Running"
    /\ ~LoopCondition
    /\ LET winner == GetWinner(game, state)
       IN  /\ notes' = [i \in DOMAIN notes |->
                          [notes[i] EXCEPT !.end =
                              IF IsTerminal(game, state)
                              THEN Append(@, [state |-> state, winner |-> winner,
                                              player |-> i])
                              ELSE @]]
           /\ result' = [status |-> "pending",
                         game |-> game.name,
                         agents |-> [i \in 1 .. agents |-> AgentName(i - 1)],
                         moves |-> Len(moves_history),
                         winner |-> winner,
                         avg_move_time |-> IF move_times # <<>>
                                           THEN <<SumSeq(move_times), Len(move_times)>>
                                           ELSE <<0, 1>>,
                         max_move_time |-> IF move_times # <<>>
                                           THEN Max(SeqToSet(move_times)) ELSE 0]
    /\ pc' = "Logging"
    /\ UNCHANGED <<game, agents, max_moves, state, current_player, move_count,
                   moves_history, states_history, move_times, turn, log, ids,
                   random, random_agents, board, call>>

GameOver ==
    /\ pc = "Running"
    /\ ~LoopCondition
    /\ LET winner == GetWinner(game, state)
       IN  /\ notes' = [i \in DOMAIN notes |->
                          [notes[i] EXCEPT !.end =
                              Append(@, [state |-> state, winner |-> winner, player |-> i])]]
           /\ result' = [status |-> "pending",
                         game |-> game.name,
                         agents |-> [i \in 1 .. agents |-> AgentName(i - 1)],
                         moves |-> Len(moves_history),
                         winner |-> winner,
                         avg_move_time |-> IF move_times # <<>>
                                           THEN <<SumSeq(move_times), Len(move_times)>>
                                           ELSE <<0, 1>>,
                         max_move_time |-> IF move_times # <<>>
                                           THEN Max(SeqToSet(move_times)) ELSE 0]
    /\ pc' = "Logging"
    /\ UNCHANGED <<game, agents, max_moves, state, current_player, move_count,
                   moves_history, states_history, move_times, turn, log, ids,
                   random, random_agents, board, call>>

\* log_match: the record goes to the logger, whose file write may fail
LogMatch ==
    /\ pc = "Logging"
    /\ log' = Append(log, [result |-> [result EXCEPT !.status = "returned"],
                           moves_history |-> moves_history,
                           final_state |-> states_history[Len(states_history)]])
    /\ \E written \in BOOLEAN :
          IF written
          THEN /\ pc' = "Finished"
               /\ result' = [result EXCEPT !.status = "returned"]
          ELSE /\ pc' = "Aborted"
               /\ result' = [status |-> "raised", error |-> "logger"]
    /\ UNCHANGED <<game, agents, max_moves, state, current_player, move_count,
                   moves_history, states_history, move_times, turn, notes, ids,
                   random, random_agents, board, call>>

Next == New \/ RunMatch \/ Turn \/ GameOver \/ LogMatch

Spec == Init /\ [][Next]_vars

\* run_match is sequential code: once called it keeps executing, and the
\* agents' make_move and the logger come back (with a value or an error)
LiveSpec == Spec /\ WF_vars(Turn) /\ WF_vars(GameOver) /\ WF_vars(LogMatch)

(***************************************************************************)
(* SpecRerun: the MatchRunner of Spec whose caller repeats its call of     *)
(* run_match (same max_moves) on the instance after it has returned, up to *)
(* MaxRuns calls in all.  run_match tests nothing about earlier calls: it  *)
(* starts as the first call does, on the histories the instance holds.     *)
(***************************************************************************)
RerunGames == {Gomoku(2, 1)}

MaxRuns == 2

RunAgain ==
    /\ pc = "Finished"
    /\ Len(notes[0].start) < MaxRuns
    /\ max_moves' = max_moves
    /\ state' = Reset(game)
    /\ states_history' = Append(states_history, Reset(game))
    /\ ids' = [state |-> ids.fresh,
               history |-> Append(ids.history, NpCopy(ids.fresh, ids.fresh + 1)),
               fresh |-> ids.fresh + 2]
    /\ notes' = [i \in DOMAIN notes |->
                    [notes[i] EXCEPT !.start = Append(@, i)]]
    /\ current_player' = 0
    /\ move_count' = 0
    /\ pc' = "Running"
    /\ turn' = NoTurn
    /\ UNCHANGED <<game, agents, moves_history, move_times, result, log,
                   random, random_agents, board, call>>

RerunInit == game \in RerunGames /\ NoRunner

RerunNext == Next \/ RunAgain

SpecRerun == RerunInit /\ [][RerunNext]_vars

(***************************************************************************)
(* SpecPass: the MatchRunner of Spec, and in addition matches of a game in *)
(* which a player can be left without a legal move on a non-terminal board.*)
(***************************************************************************)
PassGames == {ConfinedGomoku(2, 3)}

PassInit == game \in MatchGames \cup PassGames /\ NoRunner

SpecPass == PassInit /\ [][Next]_vars

(***************************************************************************)
(* SpecScript: the MatchRunner of Spec, and in addition a Gomoku 5x5 with  *)
(* win_length 3 played by the ScriptedAgents of the win-detection test.    *)
(* Seat 0 is scripted with the cells (0,0), (1,1), (2,2) and seat 1 with   *)
(* (0,1), (1,0); the model runs the scripts that list these cells in any   *)
(* order.                                                                  *)
(***************************************************************************)
ScriptGames == {Gomoku(5, 3)}

ScriptCells == <<{<<0, 0>>, <<1, 1>>, <<2, 2>>}, {<<0, 1>>, <<1, 0>>}>>

\* ScriptedAgent.make_move: the next move of the script when it is legal,
\* otherwise the first legal move
ScriptedAgent(cells, legal_moves) ==
    IF cells \cap SeqToSet(legal_moves) # {}
    THEN cells \cap SeqToSet(legal_moves)
    ELSE {legal_moves[1]}

ScriptInit == game \in MatchGames \cup ScriptGames /\ NoRunner

ScriptTurn ==
    /\ Turn
    /\ game \in ScriptGames =>
          /\ turn'.response = "return"
          /\ turn'.move \in ScriptedAgent(ScriptCells[current_player + 1],
                                          turn'.legal_moves)

ScriptNext == New \/ RunMatch \/ ScriptTurn \/ GameOver \/ LogMatch

SpecScript == ScriptInit /\ [][ScriptNext]_vars

(***************************************************************************)
(* SpecStubborn: the MatchRunner of Spec with, in seat 0, an agent whose   *)
(* make_move always returns a value outside legal_moves (the BadAgent of   *)
(* the feedback test, for every call); the agent in seat 1 is arbitrary.   *)
(***************************************************************************)
BadSeat == 0

StubbornTurn ==
    /\ Turn
    /\ (turn'.kind # "pass" /\ turn'.player = BadSeat) =>
          /\ turn'.response = "return"
          /\ ~turn'.move_success

StubbornNext == New \/ RunMatch \/ StubbornTurn \/ GameOver \/ LogMatch

SpecStubborn == Init /\ [][StubbornNext]_vars

(***************************************************************************)
(* SpecRandom: a program that constructs RandomAgents, with or without a   *)
(* seed, and calls their make_move on lists of moves, in any order, while  *)
(* an orchestrator makes fallback choices; all of them use the generator   *)
(* of the module `random`.                                                 *)
(***************************************************************************)
Seeds == {0, 1}

MaxRandomAgents == 2

MaxCalls == 2

MaxDraws == 4

\* the lists handed to make_move: no move, or the first two or three cells
\* of a 2x2 board
MoveLists == {SubSeq(CellSeq(2, 2), 1, n) : n \in {0, 2, 3}}

RandomInit ==
    /\ game \in {Gomoku(2, 2)}
    /\ board = Reset(game)
    /\ call = NoCall
    /\ MatchIdle

\* RandomAgent.__init__: a seed, when given, re-seeds the module's generator
NewRandomAgent ==
    /\ Len(random_agents) < MaxRandomAgents
    /\ \E seed \in {<<s>> : s \in Seeds} \cup {None} :
          /\ random_agents' = Append(random_agents,
                                 [seed |-> seed, asked |-> <<>>, moves |-> <<>>])
          /\ random' = SeedWith(random, seed)
          /\ call' = [op |-> "RandomAgent", seed |-> seed]
    /\ UNCHANGED <<game, board, pc, agents, max_moves, state, current_player,
                   move_count, moves_history, states_history, move_times, turn,
                   notes, result, log, ids>>

\* RandomAgent.make_move of the i-th agent
RandomMakeMove ==
    /\ \E i \in DOMAIN random_agents : \E legal_moves \in MoveLists :
       \E resp \in RandomAgentMakeMove(random, legal_moves) :
          /\ Len(random_agents[i].asked) < MaxCalls
          /\ random' = Drawn(random, resp.draws)
          /\ random_agents' = [random_agents EXCEPT
                                 ![i].asked = Append(@, legal_moves),
                                 ![i].moves = Append(@, resp)]
          /\ call' = [op |-> "make_move", agent |-> i,
                      legal_moves |-> legal_moves, response |-> resp]
    /\ UNCHANGED <<game, board, pc, agents, max_moves, state, current_player,
                   move_count, moves_history, states_history, move_times, turn,
                   notes, result, log, ids>>

\* the orchestrator's fallback: random.choice(legal_moves)
FallbackChoice ==
    /\ random.draws < MaxDraws
    /\ \E legal_moves \in MoveLists \ {<<>>} :
       \E m \in RandomChoice(random, legal_moves) :
          /\ random' = Drawn(random, 1)
          /\ call' = [op |-> "fallback", legal_moves |-> legal_moves, move |-> m]
    /\ UNCHANGED <<game, board, pc, agents, max_moves, state, current_player,
                   move_count, moves_history, states_history, move_times, turn,
                   notes, result, log, ids, random_agents>>

RandomNext == NewRandomAgent \/ RandomMakeMove \/ FallbackChoice

SpecRandom == RandomInit /\ [][RandomNext]_vars

(***************************************************************************)
(* SpecReplay: matches run one after the other on one game with one cap,   *)
(* as the seeded-outcome test does: before each match two RandomAgents are *)
(* constructed with the seeds a and b, in this order, and a MatchRunner is *)
(* constructed with them and run.                                          *)
(***************************************************************************)
ReplayGames == MatchGames \cup {Gomoku(3, 3), Connect4(3, 3, 3)}

MaxMatches == 2

NewAgent(seed) == [seed |-> seed, asked |-> <<>>, moves |-> <<>>]

\* agent1 = RandomAgent(seed=a); agent2 = RandomAgent(seed=b), before the
\* first match and again, with the same seeds, after a match has returned
FreshAgents ==
    /\ \/ pc = "new" /\ random_agents = <<>>
       \/ pc = "Finished" /\ Len(log) < MaxMatches
    /\ \E a, b \in {<<s>> : s \in Seeds} :
          /\ random_agents # <<>> =>
                a = random_agents[1].seed /\ b = random_agents[2].seed
          /\ random_agents' = <<NewAgent(a), NewAgent(b)>>
          /\ random' = SeedWith(SeedWith(random, a), b)
    /\ pc' = "new"
    /\ agents' = 0
    /\ state' = NoState
    /\ current_player' = 0
    /\ move_count' = 0
    /\ moves_history' = <<>>
    /\ states_history' = <<>>
    /\ move_times' = <<>>
    /\ turn' = NoTurn
    /\ notes' = <<>>
    /\ result' = [status |-> "none"]
    /\ ids' = NoIds
    /\ UNCHANGED <<game, max_moves, log, board, call>>

\* MatchRunner(game, [agent1, agent2], ...)
ReplayNew == random_agents # <<>> /\ New /\ agents' = Len(random_agents)

\* run_match(max_moves=...), with the cap of the first match
ReplayRun == RunMatch /\ (log # <<>> => max_moves' = max_moves)

ReplayInit == game \in ReplayGames /\ NoRunner

ReplayNext ==
    FreshAgents \/ ReplayNew \/ ReplayRun \/ Turn \/ GameOver \/ LogMatch

SpecReplay == ReplayInit /\ [][ReplayNext]_vars

(***************************************************************************)
(* SpecEnforced: EnforcedRandomAgent.make_move called with any list of up  *)
(* to MaxCandidates moves, on the board (legal or not) or just off it, on  *)
(* the boards reachable by play.                                           *)
(***************************************************************************)
EnforcedGames == {Gomoku(2, 2), Connect4(2, 2, 2)}

MaxCandidates == 2

CandidateLists(g) ==
    UNION {[1 .. n -> AgentMoves(g) \ {None}] : n \in 0 .. MaxCandidates}

\* the trial of every candidate: game.make_move(state.copy(), move, player)
Trials(g, s, legal_moves, player) ==
    [k \in DOMAIN legal_moves |-> MakeMove(g, s, legal_moves[k], player)]

\* the trials whose error is not the ValueError the loop catches
Uncaught(trials) ==
    {k \in DOMAIN trials : trials[k].raised /\ trials[k].error # "ValueError"}

\* the candidates whose trial returned, in the order of the list
Validated(legal_moves, trials) ==
    LET Index(k) == ~trials[k].raised
        kept == SelectSeq([k \in DOMAIN legal_moves |-> k], Index)
    IN  [j \in DOMAIN kept |-> legal_moves[kept[j]]]

\* EnforcedRandomAgent.make_move without the validation loop
EnforcedMakeMoveUnchecked(g, s, legal_moves, player, r) ==
    IF legal_moves = <<>>
    THEN {[kind |-> "raise", error |-> "ValueError", move |-> None, draws |-> 0,
           tried |-> 0, state |-> s]}
    ELSE {[kind |-> "return", error |-> "", move |-> m, draws |-> 1,
           tried |-> Len(legal_moves), state |-> s] :
             m \in RandomChoice(r, legal_moves)}

\* EnforcedRandomAgent.make_move: `tried` is the number of candidates whose
\* trial was run, `state` the contents of the caller's array afterwards
EnforcedMakeMove(g, s, legal_moves, player, r) ==
    LET test_state == s                     \* state.copy(), for each candidate
        trials == Trials(g, test_state, legal_moves, player)
        validated_moves == Validated(legal_moves, trials)
    IN  IF legal_moves = <<>>
        THEN {[kind |-> "raise", error |-> "ValueError", move |-> None,
               draws |-> 0, tried |-> 0, state |-> s]}
        ELSE IF Uncaught(trials) # {}
        THEN {[kind |-> "raise", error |-> trials[Min(Uncaught(trials))].error,
               move |-> None, draws |-> 0, tried |-> Min(Uncaught(trials)),
               state |-> s]}
        ELSE IF validated_moves = <<>>
        THEN {[kind |-> "raise", error |-> "ValueError", move |-> None,
               draws |-> 0, tried |-> Len(legal_moves), state |-> s]}
        ELSE {[kind |-> "return", error |-> "", move |-> m, draws |-> 1,
               tried |-> Len(legal_moves), state |-> s] :
                 m \in RandomChoice(r, validated_moves)}

EnforcedInit ==
    /\ game \in EnforcedGames
    /\ board = Reset(game)
    /\ call = NoCall
    /\ MatchIdle

EnforcedCall ==
    /\ \E player \in Range(num_players(game)) :
       \E legal_moves \in CandidateLists(game) :
       \E resp \in EnforcedMakeMove(game, board, legal_moves, player, random) :
          /\ call' = [op |-> "enforced", legal_moves |-> legal_moves,
                      player |-> player, before |-> board, response |-> resp]
          /\ board' = resp.state
          /\ random' = Drawn(random, resp.draws)
    /\ UNCHANGED <<game, pc, agents, max_moves, state, current_player,
                   move_count, moves_history, states_history, move_times, turn,
                   notes, result, log, ids, random_agents>>

EnforcedNext == Play \/ EnforcedCall

SpecEnforced == EnforcedInit /\ [][EnforcedNext]_vars

(***************************************************************************)
(* SpecParse: LLMAgent._parse_response applied to a response text and a    *)
(* non-empty list of legal moves.  A text is a sequence of at most         *)
(* MaxTokens tokens: the keyword in two spellings, a blank, a digit, or a  *)
(* character that is none of these.                                        *)
(***************************************************************************)
MaxTokens == 5

Keywords == {"MOVE:", "move:"}

DigitTokens == {"0", "1", "3"}

Alphabet == Keywords \cup DigitTokens \cup {" ", "-"}

Texts == UNION {[1 .. n -> Alphabet] : n \in 0 .. MaxTokens}

\* int() of one digit
DigitValue(d) == IF d = "0" THEN 0 ELSE IF d = "1" THEN 1 ELSE 3

\* \s* from position j: the first position at or after j that is no blank
RECURSIVE SkipBlanks(_, _)
SkipBlanks(t, j) ==
    IF j <= Len(t) /\ t[j] = " " THEN SkipBlanks(t, j + 1) ELSE j

\* \d+ from position j: the first position after the run of digits
RECURSIVE DigitsEnd(_, _)
DigitsEnd(t, j) ==
    IF j <= Len(t) /\ t[j] \in DigitTokens THEN DigitsEnd(t, j + 1) ELSE j

\* int() of the digits at positions a .. b - 1
RECURSIVE ToInt(_, _, _)
ToInt(t, a, b) ==
    IF a >= b THEN 0 ELSE 10 * ToInt(t, a, b - 1) + DigitValue(t[b - 1])

\* the pattern MOVE:\s*(\d+), ignoring case, matched at position i
MatchAt(t, i) ==
    /\ t[i] \in Keywords
    /\ LET j == SkipBlanks(t, i + 1) IN j <= Len(t) /\ t[j] \in DigitTokens

\* group(1) of the match at position i, as an integer
Group(t, i) ==
    LET j == SkipBlanks(t, i + 1) IN ToInt(t, j, DigitsEnd(t, j))

\* re.search: None, or <<n>> for the number in the leftmost match
ReSearchLast(t) ==
    LET found == {i \in DOMAIN t : MatchAt(t, i)}
    IN  IF found = {} THEN None ELSE <<Group(t, Max(found))>>

ReSearch(t) ==
    LET found == {i \in DOMAIN t : MatchAt(t, i)}
    IN  IF found = {} THEN None ELSE <<Group(t, Min(found))>>

\* _parse_response: the move, and the number of values taken from `random`
ParseResponse(response, legal_moves, r) ==
    LET match == ReSearch(response)
    IN  IF match # None /\ 0 <= match[1] /\ match[1] < Len(legal_moves)
        THEN {[move |-> legal_moves[match[1] + 1], draws |-> 0]}
        ELSE {[move |-> m, draws |-> 1] : m \in RandomChoice(r, legal_moves)}

ParseInit ==
    /\ game \in {Gomoku(2, 2)}
    /\ board = Reset(game)
    /\ \E response \in Texts : \E legal_moves \in MoveLists \ {<<>>} :
          call = [op |-> "response", response |-> response,
                  legal_moves |-> legal_moves]
    /\ MatchIdle

Parse ==
    /\ call.op = "response"
    /\ \E out \in ParseResponse(call.response, call.legal_moves, random) :
          /\ call' = [op |-> "_parse_response", response |-> call.response,
                      legal_moves |-> call.legal_moves, move |-> out.move,
                      draws |-> out.draws]
          /\ random' = Drawn(random, out.draws)
    /\ UNCHANGED <<game, board, pc, agents, max_moves, state, current_player,
                   move_count, moves_history, states_history, move_times, turn,
                   notes, result, log, ids, random_agents>>

ParseNext == Parse

SpecParse == ParseInit /\ [][ParseNext]_vars

(***************************************************************************)
(* SpecQuery: LLMAgent._query_llm, the retry loop around the completion    *)
(* call.  Each attempt returns a text or fails with an error; `call` holds *)
(* the loop's position, the attempts made so far and the number of sleeps. *)
(***************************************************************************)
MaxRetries == 4

ReplyTexts == {"MOVE: 0", "no move"}

Errors == {"APIError", "Timeout", "RateLimit"}

\* what one call of chat.completions.create can do
Completions ==
    {[ok |-> TRUE, text |-> t] : t \in ReplyTexts} \cup
    {[ok |-> FALSE, error |-> e] : e \in Errors}

\* the test `attempt < self._max_retries - 1` of the except clause
RetryingAlways(attempt, max_retries) == attempt < max_retries

Retrying(attempt, max_retries) == attempt < max_retries - 1

QueryInit ==
    /\ game \in {Gomoku(2, 2)}
    /\ board = Reset(game)
    /\ \E n \in 0 .. MaxRetries :
          call = [op |-> "_query_llm", max_retries |-> n, attempt |-> 0,
                  calls |-> <<>>, delays |-> 0, outcome |-> "running",
                  value |-> None]
    /\ MatchIdle

\* one iteration of `for attempt in range(self._max_retries)`: the call, and
\* on an error the sleep or the re-raise
Attempt ==
    /\ call.op = "_query_llm"
    /\ call.outcome = "running"
    /\ call.attempt < call.max_retries
    /\ \E r \in Completions :
          LET made == [call EXCEPT !.calls = Append(@, r)]
          IN  call' =
                IF r.ok
                THEN [made EXCEPT !.outcome = "returned", !.value = <<r.text>>]
                ELSE IF Retrying(call.attempt, call.max_retries)
                THEN [made EXCEPT !.delays = @ + 1, !.attempt = @ + 1]
                ELSE [made EXCEPT !.outcome = "raised",
                                  !.value = <<r.error, Len(made.calls)>>]
    /\ UNCHANGED <<game, board, matchVars>>

\* the loop ends without a return: the function returns None
LoopEnd ==
    /\ call.op = "_query_llm"
    /\ call.outcome = "running"
    /\ call.attempt >= call.max_retries
    /\ call' = [call EXCEPT !.outcome = "returned", !.value = None]
    /\ UNCHANGED <<game, board, matchVars>>

QueryNext == Attempt \/ LoopEnd

SpecQuery == QueryInit /\ [][QueryNext]_vars

(***************************************************************************)
(* SpecText: move_to_string and string_to_move of both games, on every     *)
(* move that is legal on the empty board of the default games.  A text is  *)
(* a sequence of characters.                                               *)
(***************************************************************************)
TextGames == {Gomoku(15, 5), Connect4(6, 7, 4)}

DigitChars == <<"0", "1", "2", "3", "4", "5", "6", "7", "8", "9">>

IsDigit(c) == \E d \in 1 .. 10 : DigitChars[d] = c

DigitOf(c) == (CHOOSE d \in 1 .. 10 : DigitChars[d] = c) - 1

\* str(n), as f"{n}" formats an int
RECURSIVE IntText(_)
IntText(n) ==
    IF n < 0 THEN <<"-">> \o IntText(-n)
    ELSE IF n < 10 THEN <<DigitChars[n + 1]>>
    ELSE IntText(n \div 10) \o <<DigitChars[(n % 10) + 1]>>

\* str.strip() of blanks
RECURSIVE Strip(_)
Strip(t) ==
    IF t # <<>> /\ t[1] = " " THEN Strip(Tail(t))
    ELSE IF t # <<>> /\ t[Len(t)] = " " THEN Strip(SubSeq(t, 1, Len(t) - 1))
    ELSE t

RECURSIVE DigitsValue(_)
DigitsValue(t) ==
    IF t = <<>> THEN 0
    ELSE 10 * DigitsValue(SubSeq(t, 1, Len(t) - 1)) + DigitOf(t[Len(t)])

\* int(text): <<n>>, or None for the ValueError
ParseInt(t) ==
    LET s == Strip(t)
        signed == s # <<>> /\ s[1] \in {"+", "-"}
        digits == IF signed THEN Tail(s) ELSE s
    IN  IF digits = <<>> \/ \E k \in DOMAIN digits : ~IsDigit(digits[k])
        THEN None
        ELSE IF signed /\ s[1] = "-" THEN <<-DigitsValue(digits)>>
        ELSE <<DigitsValue(digits)>>

\* str.split(",")
RECURSIVE Split(_)
Split(t) ==
    LET commas == {k \in DOMAIN t : t[k] = ","}
    IN  IF commas = {} THEN <<t>>
        ELSE <<SubSeq(t, 1, Min(commas) - 1)>>
                \o Split(SubSeq(t, Min(commas) + 1, Len(t)))

\* str.lower() on the letters that occur
Lower(t) == [k \in DOMAIN t |-> IF t[k] = "C" THEN "c" ELSE t[k]]

ColumnPrefix == <<"C", "o", "l", "u", "m", "n", " ">>

\* move_to_string
MoveToChars(g, move) ==
    IF g.name = "Gomoku" THEN IntText(move[1]) \o <<",">> \o IntText(move[2])
    ELSE ColumnPrefix \o IntText(move[1])

\* Gomoku.string_to_move: the move, or None for the ValueError
GomokuStringToMoveSwapped(t) ==
    LET parts == Split(t)
    IN  IF Len(parts) # 2 THEN None
        ELSE IF ParseInt(parts[1]) = None \/ ParseInt(parts[2]) = None THEN None
        ELSE <<ParseInt(parts[2])[1], ParseInt(parts[1])[1]>>

GomokuStringToMove(t) ==
    LET parts == Split(t)
    IN  IF Len(parts) # 2 THEN None
        ELSE IF ParseInt(parts[1]) = None \/ ParseInt(parts[2]) = None THEN None
        ELSE <<ParseInt(parts[1])[1], ParseInt(parts[2])[1]>>

\* Connect4.string_to_move: the move, or None for the ValueError
Connect4StringToMove(t) ==
    IF Len(t) >= 7 /\ Lower(SubSeq(t, 1, 7)) = Lower(ColumnPrefix)
    THEN ParseInt(SubSeq(t, 8, Len(t)))
    ELSE ParseInt(t)

StringToMove(g, t) ==
    IF g.name = "Gomoku" THEN GomokuStringToMove(t) ELSE Connect4StringToMove(t)

TextInit ==
    /\ game \in TextGames
    /\ board = Reset(game)
    /\ \E move \in SeqToSet(GetLegalMoves(game, Reset(game), 0)) :
          call = [op |-> "move", move |-> move]
    /\ MatchIdle

MoveToStringCall ==
    /\ call.op = "move"
    /\ call' = [op |-> "move_to_string", move |-> call.move,
                text |-> MoveToChars(game, call.move)]
    /\ UNCHANGED <<game, board, matchVars>>

StringToMoveCall ==
    /\ call.op = "move_to_string"
    /\ call' = [op |-> "string_to_move", move |-> call.move, text |-> call.text,
                parsed |-> StringToMove(game, call.text)]
    /\ UNCHANGED <<game, board, matchVars>>

\* Connect4.string_to_move on the bare integer text of a column
BareStringToMoveCall ==
    /\ call.op = "move"
    /\ game.name = "Connect4"
    /\ call' = [op |-> "string_to_move", move |-> call.move,
                text |-> IntText(call.move[1]),
                parsed |-> StringToMove(game, IntText(call.move[1]))]
    /\ UNCHANGED <<game, board, matchVars>>

TextNext == MoveToStringCall \/ StringToMoveCall \/ BareStringToMoveCall

SpecText == TextInit /\ [][TextNext]_vars

(***************************************************************************)
(* SpecFixture: the 5x5 boards of the test fixtures, handed to the small   *)
(* Gomoku (board_size 5, win_length 3) of the tests.                       *)
(***************************************************************************)
small_gomoku_game == Gomoku(5, 3)

empty_board_5x5 == [x \in Cells(small_gomoku_game) |-> 0]

horizontal_win_board_5x5 ==
    [x \in Cells(small_gomoku_game) |-> IF x[1] = 2 /\ x[2] \in 0 .. 2 THEN 1 ELSE 0]

vertical_win_board_5x5 ==
    [x \in Cells(small_gomoku_game) |-> IF x[2] = 2 /\ x[1] \in 0 .. 2 THEN 2 ELSE 0]

diagonal_win_board_5x5 ==
    [x \in Cells(small_gomoku_game) |-> IF x[1] = x[2] /\ x[1] \in 0 .. 2 THEN 1 ELSE 0]

full_board_5x5 == [x \in Cells(small_gomoku_game) |-> ((x[1] + x[2]) % 2) + 1]

FixtureBoards ==
    {empty_board_5x5, horizontal_win_board_5x5, vertical_win_board_5x5,
     diagonal_win_board_5x5, full_board_5x5}

FixtureInit ==
    /\ game = small_gomoku_game
    /\ board \in FixtureBoards
    /\ call = NoCall
    /\ MatchIdle

FixtureNext == ScanGetWinner \/ ScanIsTerminal \/ ScanGetLegalMoves \/ Probe

SpecFixture == FixtureInit /\ [][FixtureNext]_vars

(***************************************************************************)
(* SpecDuel: the MatchRunner of Spec on boards with win_length 2, where    *)
(* either player can complete a line.                                      *)
(***************************************************************************)
DuelGames == {Connect4(2, 3, 2), Gomoku(2, 2)}

DuelInit == game \in DuelGames /\ NoRunner

SpecDuel == DuelInit /\ [][Next]_vars

(***************************************************************************)
(* Properties of the rules engines.                                        *)
(***************************************************************************)
Dirs == {<<0, 1>>, <<1, 0>>, <<1, 1>>, <<-1, 1>>}

\* some window of win_length consecutive cells along one of the four
\* directions lies wholly on the board and holds only `mark`
HasWindow(g, s, mark) ==
    \E start \in Cells(g) : \E d \in Dirs :
        \A i \in Range(g.win_length) :
            LET x == <<start[1] + i * d[1], start[2] + i * d[2]>>
            IN  x \in Cells(g) /\ s[x] = mark

NoRun(g, s) == ~HasWindow(g, s, 1) /\ ~HasWindow(g, s, 2)

OnBoard(g, move) ==
    IF g.name = "Gomoku" THEN move \in Cells(g) ELSE move[1] \in Range(g.cols)

\* the cells in which two boards differ
Diff(s, t) == {x \in DOMAIN s : s[x] # t[x]}

ColumnFull(g, s, col) == \A row \in Range(g.rows) : s[<<row, col>>] # 0

BoardFull(g, s) == \A x \in Cells(g) : s[x] # 0

\* no empty cell below an occupied one: what play under gravity produces
Settled(g, s) ==
    \A x \in Cells(g) : \A y \in Cells(g) :
        (s[x] # 0 /\ y[2] = x[2] /\ y[1] > x[1]) => s[y] # 0

\* C5 (SpecMove): legality closure.  make_move with a move of
\* get_legal_moves(state, p), on a state reachable by play, does not raise,
\* leaves its input unchanged and returns a state that differs from the
\* input in exactly one previously empty cell, now holding p + 1.
C5_LegalityClosure ==
    (call.op = "make_move" /\ call.legal) =>
        /\ ~call.out.raised
        /\ call.out.input = call.before
        /\ \E x \in Cells(game) :
              /\ Diff(call.before, call.out.new_state) = {x}
              /\ call.before[x] = 0
              /\ call.out.new_state[x] = call.player + 1

C5_Witness ==
    /\ call.op = "make_move"
    /\ call.legal
    /\ game.name = "Connect4"
    /\ call.player = 1
    /\ \E x \in Cells(game) : call.before[x] # 0 /\ call.out.new_state[<<x[1] - 1, x[2]>>] = 2
                              /\ call.before[<<x[1] - 1, x[2]>>] = 0

\* C6 (SpecMove): Gomoku make_move on an occupied cell, or on a coordinate
\* outside [0, board_size) in either dimension (negative ones included),
\* raises, and the input state is unchanged afterwards.
C6_GomokuRejects ==
    (/\ call.op = "make_move"
     /\ game.name = "Gomoku"
     /\ (~OnBoard(game, call.move) \/ call.before[call.move] # 0)) =>
        /\ call.out.raised
        /\ call.out.input = call.before
        /\ board = call.before

C6_Witness ==
    /\ call.op = "make_move"
    /\ game.name = "Gomoku"
    /\ OnBoard(game, call.move)
    /\ call.before[call.move] = 2
    /\ call.player = 0
    /\ call.out.raised

C6_WitnessNegative ==
    /\ call.op = "make_move"
    /\ game.name = "Gomoku"
    /\ call.move[1] = -1
    /\ call.out.raised

\* C7 (SpecMove), as claimed: Connect4 make_move on a full column, or on a
\* column index outside [0, cols), raises and returns no state, and the
\* input state is unchanged.
C7_Connect4Rejects ==
    (/\ call.op = "make_move"
     /\ game.name = "Connect4"
     /\ (~OnBoard(game, call.move) \/ ColumnFull(game, call.before, call.move[1]))) =>
        /\ call.out.raised
        /\ call.out.input = call.before

\* C8 (SpecScan), as claimed: get_winner returns p iff some window holds
\* only p + 1, and None iff neither player has such a window.
C8_AsClaimed ==
    call.op = "get_winner" =>
        /\ \A p \in Range(num_players(game)) :
              (call.winner = <<p>>) <=> HasWindow(game, board, p + 1)
        /\ (call.winner = None) <=> NoRun(game, board)

\* C8 (SpecScan), amended: get_winner returns 0 iff some window holds only
\* mark 1; it returns 1 iff some window holds only mark 2 and no window
\* holds only mark 1; it returns None iff neither player has a window.
C8_WinScan ==
    call.op = "get_winner" =>
        /\ (call.winner = <<0>>) <=> HasWindow(game, board, 1)
        /\ (call.winner = <<1>>) <=>
              (HasWindow(game, board, 2) /\ ~HasWindow(game, board, 1))
        /\ (call.winner = None) <=> NoRun(game, board)

C8_Witness ==
    /\ call.op = "get_winner"
    /\ game.name = "Connect4"
    /\ call.winner = <<1>>
    /\ ~ScanRows(game, board, 2)
    /\ ~ScanCols(game, board, 2)
    /\ ~ScanDiagDown(game, board, 2)

\* C9 (SpecScan): is_terminal(state) is true iff get_winner(state) is not
\* None or get_legal_moves(state, 0) is empty.
C9_TerminalIff ==
    call.op = "is_terminal" =>
        (call.terminal <=>
            (GetWinner(game, board) # None \/ GetLegalMoves(game, board, 0) = <<>>))

C9_Witness ==
    /\ call.op = "is_terminal"
    /\ call.terminal
    /\ GetWinner(game, board) = None
    /\ game.name = "Gomoku"

C10_WitnessInProgress ==
    /\ call.op = "is_terminal"
    /\ NoRun(game, board)
    /\ ~BoardFull(game, board)
    /\ board # Reset(game)
    /\ ~call.terminal

(***************************************************************************)
(* Properties of the MatchRunner.                                          *)
(***************************************************************************)
Ended == pc \in {"Finished", "Aborted"}

\* the step is an iteration of the game loop in which the agent was asked
TurnStep == pc = "Running" /\ pc' # "Logging" /\ turn'.kind # "pass"

\* the cell of board s that a move lands on
Lands(g, s, move, x) ==
    IF g.name = "Gomoku" THEN x = move
    ELSE x[2] = move[1] /\ \A row \in Range(g.rows) : row > x[1] => s[<<row, x[2]>>] # 0

\* C1 (Spec), as claimed: with agents that return a legal move, return an
\* illegal value or raise, run_match never ends with an error (it returns
\* its result summary).
C1_AsClaimed == pc # "Aborted"

\* C1 (LiveSpec), amended: run_match always terminates, and it returns the
\* result summary unless the logger's log_match raises; no other error
\* ends it.
C1_Terminates ==
    /\ [](pc = "Aborted" => result.error = "logger")
    /\ [](pc = "Finished" => result.status = "returned" /\ result.moves = Len(moves_history))
    /\ (pc = "Running") ~> Ended

C1_Witness ==
    /\ pc = "Finished"
    /\ game.name = "Connect4"
    /\ BoardFull(game, state)
    /\ turn.response = "raise"
    /\ result.moves < move_count
    /\ result.winner = None

\* C2 (Spec): MatchRunner(game, agents) raises whenever len(agents) differs
\* from game.num_players, fewer or more, and otherwise succeeds with empty
\* moves_history, states_history and move_times.
C2_Construction ==
    /\ pc # "new" => ((pc = "failed") <=> (agents # num_players(game)))
    /\ pc = "NotStarted" =>
          moves_history = <<>> /\ states_history = <<>> /\ move_times = <<>>

C2_Witness == pc = "failed" /\ agents > num_players(game)

C2_WitnessOk == pc = "NotStarted" /\ agents = num_players(game)

\* C3 (Spec): an exception raised by an agent's make_move never leaves
\* run_match: the turn is rejected (feedback with success = False), a
\* fallback move of legal_moves is applied and the loop goes on.
C3_AgentErrorCaught ==
    [][(TurnStep /\ turn'.response = "raise") =>
          /\ pc' = "Running"
          /\ result' = result
          /\ turn'.kind = "rejected"
          /\ ~turn'.move_success
          /\ turn'.error_message # ""
          /\ notes'[current_player].feedback = notes[current_player].feedback + 1
          /\ turn'.applied \in SeqToSet(GetLegalMoves(game, state, current_player))
          /\ state' # state]_vars

C3_Witness ==
    /\ pc = "Running"
    /\ turn.response = "raise"
    /\ turn.kind = "rejected"
    /\ move_count >= 2
    /\ LoopCondition

\* C4 (Spec): on a rejected decision (the agent raised or returned a value
\* not in legal_moves) exactly one move of the current legal_moves is
\* applied, with the current player's mark, and the turn counts against
\* the cap; the agent's value is not what is applied.
C4_FallbackApplied ==
    [][(TurnStep /\ ~turn'.move_success) =>
          /\ pc' = "Running"
          /\ move_count' = move_count + 1
          /\ turn'.applied \in SeqToSet(GetLegalMoves(game, state, current_player))
          /\ turn'.applied # turn'.move
          /\ \E x \in Cells(game) :
                /\ Diff(state, state') = {x}
                /\ state[x] = 0
                /\ state'[x] = current_player + 1
                /\ Lands(game, state, turn'.applied, x)
          /\ states_history' = Append(states_history, state')]_vars

C4_Witness ==
    /\ turn.kind = "rejected"
    /\ turn.response = "return"
    /\ game.name = "Gomoku"
    /\ turn.move \in Cells(game)
    /\ turn.fed_state[turn.move] # 0
    /\ state[turn.move] = turn.fed_state[turn.move]

\* the accepted moves so far follow the scripted scenario: seat 0 plays
\* (0,0), (1,1), (2,2) and seat 1 plays (0,1), (1,0), alternately
ScriptOrder == <<<<0, 0>>, <<0, 1>>, <<1, 1>>, <<1, 0>>, <<2, 2>>>>

Scripted ==
    /\ game \in ScriptGames
    /\ \A k \in 1 .. Len(moves_history) :
          k <= Len(ScriptOrder) =>
              /\ moves_history[k].move = MoveToString(game, ScriptOrder[k])
              /\ moves_history[k].player = (k - 1) % 2

Last(q) == q[Len(q)]

\* C11 (SpecScript): the match stops at the first terminal state.  A move
\* is applied only to a non-terminal state, so every snapshot of
\* states_history but the last is non-terminal; and the scripted scenario
\* (Gomoku 5x5, win_length 3, all moves accepted, a cap of at least 5)
\* ends after exactly 5 moves with winner 0.
C11_StopsAtTerminal ==
    /\ [](\A k \in 1 .. Len(states_history) - 1 :
             ~IsTerminal(game, states_history[k]))
    /\ [][(pc = "Running" /\ state' # state) => ~IsTerminal(game, state)]_vars
    /\ []((Scripted /\ max_moves >= Len(ScriptOrder) /\ pc \in {"Logging", "Finished"}) =>
             /\ result.winner = <<0>>
             /\ result.moves = 5
             /\ Len(states_history) = 6
             /\ IsTerminal(game, Last(states_history)))

C11_Witness ==
    /\ pc = "Finished"
    /\ Scripted
    /\ Len(moves_history) = Len(ScriptOrder)
    /\ result.winner = <<0>>
    /\ \A x \in ScriptCells[1] : state[x] = 1
    /\ \A x \in ScriptCells[2] : state[x] = 2

\* the same on the small boards, where the agents are arbitrary
C11_WitnessFallback ==
    /\ pc = "Finished"
    /\ game \in MatchGames
    /\ game.name = "Connect4"
    /\ turn.kind = "rejected"
    /\ GetWinner(game, state) = <<0>>
    /\ move_count < max_moves

\* C12 (Spec): the winner reported in the result equals get_winner of the
\* final state, the last snapshot of states_history; it is None exactly
\* when that board has no winning line, whether the match ended on a full
\* board or at the move cap, and otherwise it is a player who has one.
C12_WinnerReported ==
    pc \in {"Logging", "Finished"} =>
        /\ result.winner = GetWinner(game, Last(states_history))
        /\ (result.winner = None) <=> NoRun(game, Last(states_history))
        /\ \A p \in Range(num_players(game)) :
              result.winner = <<p>> => HasWindow(game, Last(states_history), p + 1)

\* a draw: the board is full and nobody has a line
C12_Witness ==
    /\ pc = "Finished"
    /\ result.winner = None
    /\ BoardFull(game, Last(states_history))
    /\ Len(moves_history) < move_count

\* ended by the cap on a board still in progress
C12_WitnessCap ==
    /\ pc = "Finished"
    /\ result.winner = None
    /\ ~IsTerminal(game, Last(states_history))
    /\ move_count = max_moves
    /\ max_moves >= 3

C12_WitnessWin ==
    /\ pc = "Finished"
    /\ result.winner = <<0>>
    /\ game.name = "Connect4"
    /\ ~BoardFull(game, Last(states_history))

\* C13 (Spec): when the loop of run_match has ended, by a win, by a full
\* board, by the move cap on a non-terminal board or with max_moves = 0,
\* each agent has received game_end exactly once, with the final state, the
\* winner and its own seat index; no agent receives it earlier.
C13_GameEnd ==
    /\ pc \in {"NotStarted", "Running"} =>
          \A i \in DOMAIN notes : notes[i].end = <<>>
    /\ pc \in {"Logging", "Finished", "Aborted"} =>
          /\ DOMAIN notes = Range(num_players(game))
          /\ \A i \in Range(num_players(game)) :
                notes[i].end = <<[state |-> Last(states_history),
                                 winner |-> GetWinner(game, Last(states_history)),
                                 player |-> i]>>

\* ended by the cap on a non-terminal board
C13_Witness ==
    /\ pc = "Finished"
    /\ ~IsTerminal(game, state)
    /\ move_count = max_moves
    /\ max_moves >= 2
    /\ Len(notes[1].end) = 1
    /\ notes[1].end[1].player = 1
    /\ notes[1].end[1].state = state

C13_WitnessNoMoves ==
    /\ pc = "Finished"
    /\ max_moves = 0
    /\ notes[0].end = <<[state |-> Reset(game), winner |-> None, player |-> 0]>>

C13_WitnessWin ==
    /\ pc = "Finished"
    /\ move_count < max_moves
    /\ notes[1].end = <<[state |-> state, winner |-> <<0>>, player |-> 1]>>

C13_WitnessFull ==
    /\ pc = "Finished"
    /\ move_count < max_moves
    /\ BoardFull(game, state)
    /\ notes[0].end = <<[state |-> state, winner |-> None, player |-> 0]>>

\* C14 (Spec): on every turn in which the current player has a legal move
\* the acting agent, and no other, receives move_feedback exactly once; it
\* says accepted exactly when make_move returned a value of legal_moves,
\* and otherwise (the agent raised, or returned another value) it says
\* rejected with a non-empty reason; it carries the state before the move,
\* and the move is applied only afterwards.
C14_MoveFeedback ==
    [][(pc = "Running" /\ LoopCondition
        /\ GetLegalMoves(game, state, current_player) # <<>>) =>
          /\ turn'.kind \in {"accepted", "rejected"}
          /\ turn'.player = current_player
          /\ notes'[current_player].asked = notes[current_player].asked + 1
          /\ notes'[current_player].feedback = notes[current_player].feedback + 1
          /\ \A i \in DOMAIN notes \ {current_player} : notes'[i] = notes[i]
          /\ turn'.move_success <=>
                /\ turn'.response = "return"
                /\ turn'.move \in SeqToSet(GetLegalMoves(game, state, current_player))
          /\ turn'.move_success <=> turn'.kind = "accepted"
          /\ ~turn'.move_success => turn'.error_message # ""
          /\ turn'.fed_state = state
          /\ state' # state]_vars

\* a returned value that is on the board but not legal: rejected, with the
\* feedback on the board as it was before the fallback move
C14_Witness ==
    /\ turn.kind = "rejected"
    /\ turn.response = "return"
    /\ game.name = "Connect4"
    /\ turn.move # None
    /\ turn.move[1] \in Range(game.cols)
    /\ turn.fed_state[<<0, turn.move[1]>>] # 0
    /\ turn.error_message # ""
    /\ turn.fed_state # state
    /\ notes[turn.player].feedback = 2
    /\ notes[1 - turn.player].feedback = 1

C14_WitnessAccepted ==
    /\ turn.kind = "accepted"
    /\ turn.error_message = ""
    /\ turn.fed_state = states_history[Len(states_history) - 1]
    /\ notes[turn.player].feedback = 2

\* C15 (SpecPass): every iteration of the loop of run_match, whether the
\* turn was accepted, rejected (fallback applied) or passed, hands the turn
\* to the other player, (current_player + 1) mod num_players; in these
\* two-player games no player holds the turn in two consecutive iterations.
C15_TurnAdvances ==
    /\ [][(pc = "Running" /\ LoopCondition) =>
             /\ pc' = "Running"
             /\ turn'.kind \in {"accepted", "rejected", "pass"}
             /\ turn'.player = current_player
             /\ current_player' = (current_player + 1) % 2
             /\ current_player' # current_player
             /\ turn.kind # "none" => turn'.player # turn.player]_vars
    /\ [](pc = "Running" => current_player \in Range(num_players(game)))

\* the turn came back to player 0 after a pass of player 1
C15_Witness ==
    /\ pc = "Running"
    /\ turn.kind = "pass"
    /\ turn.player = 1
    /\ current_player = 0
    /\ LoopCondition

C15_WitnessRejected ==
    /\ pc = "Running"
    /\ turn.kind = "rejected"
    /\ turn.player = 0
    /\ current_player = 1
    /\ move_count >= 3

\* the empty cells the rules let the player take
Playable(g, s, player) ==
    {x \in Cells(g) :
        /\ s[x] = 0
        /\ g.name = "Connect4" => x[1] = 0
        /\ ("confined" \in DOMAIN g /\ player = g.confined) => x[2] = 0}

\* C17 (SpecPass): when the current player has no legal move in a
\* non-terminal state, the iteration asks the agent for nothing (neither
\* make_move nor move_feedback), leaves the board, moves_history,
\* states_history, move_times and the consumed-move count unchanged, hands
\* the turn to the next player, and run_match goes on; an iteration passes
\* in no other case.
C17_Pass ==
    [][(pc = "Running" /\ LoopCondition) =>
          IF Playable(game, state, current_player) = {}
          THEN /\ turn'.kind = "pass"
               /\ notes' = notes
               /\ state' = state
               /\ moves_history' = moves_history
               /\ states_history' = states_history
               /\ move_times' = move_times
               /\ move_count' = move_count
               /\ current_player' = (current_player + 1) % num_players(game)
               /\ pc' = "Running"
               /\ result' = result
          ELSE turn'.kind # "pass"]_vars

\* after the pass of player 1 the match went on and was completed
C17_Witness ==
    /\ pc = "Finished"
    /\ "confined" \in DOMAIN game
    /\ BoardFull(game, state)
    /\ Len(states_history) = 5
    /\ \E k \in 1 .. 4 :
          /\ Playable(game, states_history[k], 1) = {}
          /\ Cardinality({x \in Cells(game) : states_history[k][x] # 0}) = 3
          /\ states_history[k + 1][<<1, 1>>] = 1

C17_WitnessPass ==
    /\ pc = "Running"
    /\ turn.kind = "pass"
    /\ turn.player = 1
    /\ move_count < max_moves
    /\ ~IsTerminal(game, state)

\* C16 (SpecStubborn), as claimed: when one agent always proposes a move
\* outside legal_moves, run_match still completes, that agent has received
\* move_feedback with accepted = false at least once (if it was given a
\* turn at all), and result['moves'] is min(cap, movesUntilTerminal): the
\* number of moves that ended the game, or the cap if that came first.
C16_AsClaimed ==
    /\ pc = "Aborted" => result.error = "logger"
    /\ pc = "Finished" =>
          /\ max_moves > 0 => notes[BadSeat].feedback >= 1
          /\ result.moves = IF IsTerminal(game, Last(states_history))
                            THEN Len(states_history) - 1
                            ELSE max_moves

\* C18 (Spec), as claimed: at every point of run_match the record holds one
\* move-entry and one snapshot per turn that changed the board, so
\* len(states_history) = len(moves_history) + 1, for any agent behaviour.
C18_AsClaimed ==
    pc \in {"Running", "Logging", "Finished"} =>
        Len(states_history) = Len(moves_history) + 1

\* C19 (Spec): snapshots are never aliased with the current state.  Every
\* snapshot is an array of its own, distinct from the array `state` refers
\* to and from the other snapshots; a snapshot, once appended, never
\* changes; and snapshot k is the board after exactly k applied moves, the
\* empty board for k = 0.
C19_NoAliasing ==
    /\ [](/\ Len(ids.history) = Len(states_history)
          /\ \A k \in 1 .. Len(states_history) :
                /\ ids.history[k] # ids.state
                /\ \A j \in 1 .. Len(states_history) :
                      j # k => ids.history[j] # ids.history[k])
    /\ [][\A k \in 1 .. Len(states_history) :
             /\ k <= Len(states_history')
             /\ states_history'[k] = states_history[k]]_vars
    /\ [][(pc = "Running" /\ state' # state) =>
             /\ states_history' = Append(states_history, state')
             /\ move_count' = move_count + 1]_vars
    /\ [](pc \in {"Running", "Logging", "Finished"} =>
             /\ states_history[1] = Reset(game)
             /\ Len(states_history) = move_count + 1
             /\ Last(states_history) = state)

\* after the match the early snapshots still show the early boards
C19_Witness ==
    /\ pc = "Finished"
    /\ Len(states_history) >= 4
    /\ states_history[1] = Reset(game)
    /\ Cardinality({x \in Cells(game) : states_history[2][x] # 0}) = 1
    /\ Cardinality({x \in Cells(game) : states_history[3][x] # 0}) = 2
    /\ Cardinality({x \in Cells(game) : state[x] # 0}) >= 3
    /\ ids.state \notin SeqToSet(ids.history)

\* C20 (SpecRerun), as claimed: a MatchRunner instance runs exactly one
\* match.  No agent sees a second game_start from it, and whenever
\* run_match has returned, the record describes a single match from one
\* initial state: the first snapshot is the empty board and no later one
\* is, each snapshot holds one mark more than the one before it, there is
\* one snapshot per consumed turn besides the first, and result['moves']
\* counts no more moves than that match consumed.
C20_AsClaimed ==
    /\ \A i \in DOMAIN notes : Len(notes[i].start) <= 1
    /\ pc = "Finished" =>
          /\ states_history[1] = Reset(game)
          /\ \A k \in 1 .. Len(states_history) :
                Cardinality({x \in Cells(game) : states_history[k][x] # 0}) = k - 1
          /\ Len(states_history) = move_count + 1
          /\ Len(move_times) = Len(moves_history)
          /\ result.moves <= move_count

(***************************************************************************)
(* Properties of the agents.                                               *)
(***************************************************************************)
\* the generator a RandomAgent would own if it had one of its own: seeded at
\* construction and advanced by its own successful calls only
OwnChoice(a, k) ==
    RandomChoice([seed |-> a.seed,
                  draws |-> Cardinality({j \in 1 .. k - 1 : a.asked[j] # <<>>})],
                 a.asked[k])

\* C21 as claimed: two RandomAgents constructed with the same seed that have
\* been asked over the same sequence of lists have returned the same
\* sequence of moves, however their constructions and calls were ordered
C21_AsClaimed ==
    \A i, j \in DOMAIN random_agents :
        (/\ random_agents[i].seed # None
         /\ random_agents[i].seed = random_agents[j].seed
         /\ random_agents[i].asked = random_agents[j].asked)
        => random_agents[i].moves = random_agents[j].moves

\* C23 as claimed: nothing is shared process-wide, so every move a seeded
\* RandomAgent has returned is the one its own seed and its own earlier calls
\* determine, whatever other agents and the orchestrator's fallback did
C23_AsClaimed ==
    \A i \in DOMAIN random_agents :
        LET a == random_agents[i]
        IN  \A k \in DOMAIN a.asked :
                (a.seed # None /\ a.asked[k] # <<>>)
                => a.moves[k].move \in OwnChoice(a, k)

\* C27: RandomAgent.make_move on a non-empty list returns an element of that
\* list, and on an empty list raises and returns no move
C27_RandomAgentMove ==
    call.op = "make_move" =>
        IF call.legal_moves # <<>>
        THEN /\ call.response.kind = "return"
             /\ call.response.move \in SeqToSet(call.legal_moves)
        ELSE /\ call.response.kind = "raise"
             /\ call.response.move = None

C27_Witness ==
    /\ call.op = "make_move"
    /\ Len(call.legal_moves) = 3
    /\ call.response.kind = "return"
    /\ call.response.move = call.legal_moves[2]

C27_WitnessEmpty ==
    /\ call.op = "make_move"
    /\ call.legal_moves = <<>>
    /\ call.response.kind = "raise"

\* C22: matches run one after the other on the same game and cap, each with
\* RandomAgent(seed=a) and RandomAgent(seed=b) freshly constructed in this
\* order just before it, report the same number of moves and the same
\* winner and record the same sequence of moves
C22_Replay ==
    \A m, n \in DOMAIN log :
        /\ log[m].result.moves = log[n].result.moves
        /\ log[m].result.winner = log[n].result.winner
        /\ log[m].moves_history = log[n].moves_history

C22_Witness ==
    /\ Len(log) = 2
    /\ random_agents[1].seed # random_agents[2].seed
    /\ log[2].result.moves >= 3
    /\ log[2].result.winner # None

C22_WitnessLong ==
    /\ Len(log) = 2
    /\ game = Gomoku(3, 3)
    /\ log[2].result.moves >= 5

\* a board of the game's dimensions whose cells are 0, 1 or 2
WellFormed(g, s) ==
    /\ DOMAIN s = (0 .. Rows(g) - 1) \X (0 .. Cols(g) - 1)
    /\ \A x \in DOMAIN s : s[x] \in {0, 1, 2}

\* C24: the state a match holds and every state it has recorded, from
\* reset() onwards, has the dimensions fixed at game construction and only
\* cell values 0, 1 and 2
C24_CellValues ==
    /\ pc \in {"Running", "Logging", "Finished", "Aborted"} =>
          WellFormed(game, state)
    /\ \A k \in DOMAIN states_history : WellFormed(game, states_history[k])
    /\ \A k \in DOMAIN log : WellFormed(game, log[k].final_state)

C24_Witness ==
    /\ pc = "Running"
    /\ game.name = "Gomoku"
    /\ Len(states_history) = 4
    /\ {state[x] : x \in DOMAIN state} = {0, 1, 2}

C24_WitnessConnect4 ==
    /\ pc = "Finished"
    /\ game.name = "Connect4"
    /\ BoardFull(game, state)
    /\ state = log[1].final_state

\* the playable moves of a board: the empty cells of Gomoku, the columns of
\* Connect4 that still have an empty cell
PlayableMoves(g, s) ==
    IF g.name = "Gomoku" THEN {x \in Cells(g) : s[x] = 0}
    ELSE {<<c>> : c \in {c \in Range(g.cols) : ~ColumnFull(g, s, c)}}

\* C25: get_legal_moves lists exactly the playable moves, each once (for
\* Connect4 on the boards play can produce, where no stone floats), and the
\* list is empty exactly when the board is full
C25_LegalMoves ==
    (/\ call.op = "get_legal_moves"
     /\ game.name = "Connect4" => Settled(game, board))
    => /\ SeqToSet(call.moves) = PlayableMoves(game, board)
       /\ Len(call.moves) = Cardinality(PlayableMoves(game, board))
       /\ call.moves = <<>> <=> BoardFull(game, board)

C25_Witness ==
    /\ call.op = "get_legal_moves"
    /\ game.name = "Connect4"
    /\ Settled(game, board)
    /\ ColumnFull(game, board, 1)
    /\ SeqToSet(call.moves) = {<<0>>, <<2>>, <<3>>}

C25_WitnessGomoku ==
    /\ call.op = "get_legal_moves"
    /\ game.name = "Gomoku"
    /\ Len(call.moves) = 2

C25_WitnessFull ==
    /\ call.op = "get_legal_moves"
    /\ BoardFull(game, board)
    /\ call.moves = <<>>

\* is_terminal with its probe made for `player` instead of player 0
TerminalFor(g, s, player) ==
    GetWinner(g, s) # None \/ Len(GetLegalMoves(g, s, player)) = 0

\* C26: in a Gomoku or Connect4 match both players have the same legal
\* moves, is_terminal answers as it would with the acting player, the
\* current player has a legal move whenever the loop body runs, and no turn
\* is a pass
C26_NoPass ==
    /\ pc = "Running" =>
          /\ GetLegalMoves(game, state, 0) = GetLegalMoves(game, state, 1)
          /\ IsTerminal(game, state) = TerminalFor(game, state, current_player)
          /\ LoopCondition => GetLegalMoves(game, state, current_player) # <<>>
    /\ turn.kind # "pass"

C26_Witness ==
    /\ pc = "Running"
    /\ LoopCondition
    /\ current_player = 1
    /\ move_count = 3
    /\ Len(GetLegalMoves(game, state, current_player)) = 1

\* the candidates of the last EnforcedRandomAgent call whose trial
\* application, on the state the agent was given, does not fail
Survivors ==
    {call.legal_moves[k] : k \in
        {k \in DOMAIN call.legal_moves :
            ~MakeMove(game, call.before, call.legal_moves[k], call.player).raised}}

\* C28 as claimed: EnforcedRandomAgent.make_move tries every candidate on a
\* scratch copy, returns only a candidate whose trial did not fail, fails
\* when the list is empty or every trial fails, and leaves the state it was
\* given unchanged
C28_AsClaimed ==
    call.op = "enforced" =>
        /\ call.response.tried = Len(call.legal_moves)
        /\ call.response.kind = "return" => call.response.move \in Survivors
        /\ Survivors = {} => call.response.kind = "raise"
        /\ board = call.before

\* what holds of the code: the same, for the calls in which no trial ends
\* with an error other than ValueError
C28_OnValueErrors ==
    (/\ call.op = "enforced"
     /\ \A k \in DOMAIN call.legal_moves :
           LET out == MakeMove(game, call.before, call.legal_moves[k], call.player)
           IN  out.raised => out.error = "ValueError")
    => /\ call.response.tried = Len(call.legal_moves)
       /\ call.response.kind = "return" => call.response.move \in Survivors
       /\ Survivors = {} <=> call.response.kind = "raise"
       /\ board = call.before

\* a marker at position i of a text: the keyword in either case, any
\* blanks, and an unsigned decimal number
Marker(t, i) ==
    /\ t[i] \in {"MOVE:", "move:"}
    /\ \E j \in i + 1 .. Len(t) :
          /\ t[j] \in DigitTokens
          /\ \A k \in i + 1 .. j - 1 : t[k] = " "

Markers(t) == {i \in DOMAIN t : Marker(t, i)}

C29_WitnessOutOfRange ==
    /\ call.op = "_parse_response"
    /\ call.response = <<"MOVE:", "3", "MOVE:", " ", "1">>
    /\ call.draws = 1
    /\ call.move = call.legal_moves[1]

C29_WitnessNoMarker ==
    /\ call.op = "_parse_response"
    /\ Markers(call.response) = {}
    /\ call.response # <<>>
    /\ call.draws = 1

\* the attempts of the current _query_llm call that failed
Failures == {k \in DOMAIN call.calls : ~call.calls[k].ok}

\* C30: with max_retries = n >= 1 at most n attempts are made; a success
\* ends the loop and its text is returned; after k failures and a success
\* there were k + 1 calls and k delays; after n failures the last error is
\* re-raised and no delay followed the last attempt
C30_Retry ==
    (call.op = "_query_llm" /\ call.max_retries >= 1) =>
        LET n == call.max_retries
            made == Len(call.calls)
            k == Cardinality(Failures)
        IN  /\ made <= n
            /\ \A j \in DOMAIN call.calls : call.calls[j].ok => j = made
            /\ call.outcome = "running" =>
                  k = made /\ k < n /\ call.delays = k
            /\ call.outcome = "returned" =>
                  /\ made = k + 1
                  /\ call.calls[made].ok
                  /\ call.value = <<call.calls[made].text>>
                  /\ call.delays = k
            /\ call.outcome = "raised" =>
                  /\ made = n /\ k = n
                  /\ call.value = <<call.calls[n].error, n>>
                  /\ call.delays = n - 1

C30_Witness ==
    /\ call.op = "_query_llm"
    /\ call.max_retries = 3
    /\ call.outcome = "returned"
    /\ Len(call.calls) = 3
    /\ call.delays = 2

C30_WitnessRaised ==
    /\ call.op = "_query_llm"
    /\ call.max_retries = 3
    /\ call.outcome = "raised"
    /\ call.calls[1].error # call.calls[3].error
    /\ call.delays = 2

\* C40 as claimed: _query_llm ends in one of two ways for every max_retries,
\* 0 included: it returns the text of a successful completion call, or it
\* raises the transport error; it never returns without a response
C40_AsClaimed ==
    (call.op = "_query_llm" /\ call.outcome = "returned") =>
        /\ call.calls # <<>>
        /\ call.calls[Len(call.calls)].ok
        /\ call.value = <<call.calls[Len(call.calls)].text>>

\* C31: string_to_move(move_to_string(m)) = m for every legal move of both
\* games, the Gomoku text being "row,col" and the Connect4 text
\* "Column index"; Connect4 also parses the bare integer text of m to m
C31_RoundTrip ==
    /\ call.op = "move_to_string" =>
          call.text = IF game.name = "Gomoku"
                      THEN IntText(call.move[1]) \o <<",">> \o IntText(call.move[2])
                      ELSE <<"C", "o", "l", "u", "m", "n", " ">>
                              \o IntText(call.move[1])
    /\ call.op = "string_to_move" => call.parsed = call.move

C31_Witness ==
    /\ call.op = "string_to_move"
    /\ game.name = "Gomoku"
    /\ call.text = <<"1", "2", ",", "3">>
    /\ call.parsed = <<12, 3>>

C31_WitnessConnect4 ==
    /\ call.op = "string_to_move"
    /\ call.text = <<"C", "o", "l", "u", "m", "n", " ", "6">>
    /\ call.parsed = <<6>>

C31_WitnessBare ==
    /\ call.op = "string_to_move"
    /\ call.text = <<"4">>
    /\ call.parsed = <<4>>

\* C32: in Connect4 a legal column move puts the player's mark in the lowest
\* empty cell (highest row index) of that column and changes nothing else;
\* hence no board reached by play has an empty cell below an occupied one
C32_Gravity ==
    game.name = "Connect4" =>
        /\ Settled(game, board)
        /\ (call.op = "make_move" /\ call.legal) =>
              LET col == call.move[1]
                  low == Max({row \in Range(game.rows) :
                                 call.before[<<row, col>>] = 0})
              IN  /\ ~call.out.raised
                  /\ Diff(call.before, call.out.new_state) = {<<low, col>>}
                  /\ call.out.new_state[<<low, col>>] = call.player + 1

C32_Witness ==
    /\ game.name = "Connect4"
    /\ call.op = "make_move"
    /\ call.legal
    /\ call.move = <<1>>
    /\ call.before[<<1, 1>>] # 0
    /\ call.before[<<0, 1>>] = 0
    /\ board = call.out.new_state
    /\ board[<<0, 1>>] = call.player + 1

\* the scan order of the lines as one list: rows, columns, descending
\* diagonals, ascending diagonals, each taken top-to-bottom, left-to-right
ScanLines(g) ==
    LET rows == {[rank |-> <<1, r, c>>, start |-> <<r, c>>, dir |-> <<0, 1>>] :
                    r \in Range(Rows(g)), c \in Range(Cols(g) - g.win_length + 1)}
        cols == {[rank |-> <<2, c, r>>, start |-> <<r, c>>, dir |-> <<1, 0>>] :
                    r \in Range(Rows(g) - g.win_length + 1), c \in Range(Cols(g))}
        down == {[rank |-> <<3, r, c>>, start |-> <<r, c>>, dir |-> <<1, 1>>] :
                    r \in Range(Rows(g) - g.win_length + 1),
                    c \in Range(Cols(g) - g.win_length + 1)}
        up   == {[rank |-> <<4, r, c>>, start |-> <<r, c>>, dir |-> <<-1, 1>>] :
                    r \in (g.win_length - 1) .. (Rows(g) - 1),
                    c \in Range(Cols(g) - g.win_length + 1)}
    IN  rows \cup cols \cup down \cup up

Before(a, b) ==
    \/ a[1] < b[1]
    \/ a[1] = b[1] /\ a[2] < b[2]
    \/ a[1] = b[1] /\ a[2] = b[2] /\ a[3] < b[3]

\* the lines of the board that one player fills
WinningLines(g, s) ==
    {l \in ScanLines(g) :
        /\ s[l.start] # 0
        /\ WindowAll(g, s, l.start[1], l.start[2], l.dir[1], l.dir[2], s[l.start])}

\* C33 as claimed: on a board with winning lines of both players get_winner
\* returns the owner of the first winning line in the scan order rows,
\* columns, descending diagonals, ascending diagonals
C33_AsClaimed ==
    (/\ call.op = "get_winner"
     /\ HasWindow(game, board, 1)
     /\ HasWindow(game, board, 2))
    => \E l \in WinningLines(game, board) :
          /\ \A m \in WinningLines(game, board) : m = l \/ Before(l.rank, m.rank)
          /\ call.winner = <<board[l.start] - 1>>

\* C33 amended: on a board with winning lines of both players get_winner
\* returns player index 0, wherever the lines are
C33_PlayerOrder ==
    (/\ call.op = "get_winner"
     /\ HasWindow(game, board, 1)
     /\ HasWindow(game, board, 2))
    => call.winner = <<0>>

\* player index 1 has a full row, player index 0 only a full column
C33_Witness ==
    /\ call.op = "get_winner"
    /\ ScanRows(game, board, 2)
    /\ ScanCols(game, board, 1)
    /\ ~ScanRows(game, board, 1)
    /\ ~ScanDiagDown(game, board, 1)
    /\ ~ScanDiagUp(game, board, 1)
    /\ call.winner = <<0>>

\* C34 as claimed: the full 5x5 fixture board with cell (i, j) holding
\* ((i + j) mod 2) + 1 has no winning line for win_length 3: it is full, it
\* has no winner, and it is terminal only because it is full
C34_AsClaimed ==
    board = full_board_5x5 =>
        /\ BoardFull(game, board)
        /\ NoRun(game, board)
        /\ call.op = "get_winner" => call.winner = None
        /\ call.op = "is_terminal" => call.terminal


\* C35 as claimed: the move EnforcedRandomAgent.make_move returns is legal in
\* the game for the state it was given, whatever candidates the list holds
\* (occupied cell, coordinate off the board, full or out-of-range column)
C35_AsClaimed ==
    (call.op = "enforced" /\ call.response.kind = "return")
    => call.response.move \in SeqToSet(GetLegalMoves(game, call.before, call.player))

\* what holds of the code: in Gomoku the returned move is legal
C35_GomokuLegal ==
    (call.op = "enforced" /\ call.response.kind = "return" /\ game.name = "Gomoku")
    => call.response.move \in SeqToSet(GetLegalMoves(game, call.before, call.player))


\* the match record handed to the logger for the result `res`
MatchRecord(res) ==
    [result |-> res, moves_history |-> moves_history,
     final_state |-> Last(states_history)]

\* C36 (Spec): lifecycle ordering in one run_match.  An agent's make_move is
\* called only when every agent has received game_start once, with its seat
\* index; game_end comes only after the loop has exited, and after it no
\* make_move; the match record (result, moves_history, last snapshot) reaches
\* the logger once, only after every agent's game_end; the result is returned
\* only after that, and when the logger raises, its error reaches the caller
\* and no result is returned.
C36_Lifecycle ==
    /\ (\E i \in DOMAIN notes : notes[i].asked > 0) =>
          \A i \in DOMAIN notes : notes[i].start = <<i>>
    /\ pc \in {"Running", "Logging", "Finished", "Aborted"} =>
          /\ DOMAIN notes = Range(agents)
          /\ \A i \in DOMAIN notes : notes[i].start = <<i>>
    /\ (\E i \in DOMAIN notes : notes[i].end # <<>>) =>
          /\ pc \in {"Logging", "Finished", "Aborted"}
          /\ ~LoopCondition
    /\ pc = "Logging" => log = <<>> /\ result.status = "pending"
    /\ log # <<>> =>
          /\ Len(log) = 1
          /\ pc \in {"Finished", "Aborted"}
          /\ \A i \in DOMAIN notes : Len(notes[i].end) = 1
          /\ log[1] = MatchRecord(log[1].result)
          /\ log[1].result.moves = Len(moves_history)
          /\ log[1].result.winner = GetWinner(game, Last(states_history))
    /\ result.status = "returned" =>
          /\ pc = "Finished"
          /\ log = <<MatchRecord(result)>>
    /\ pc = "Finished" => result.status = "returned"
    /\ pc = "Aborted" =>
          /\ result = [status |-> "raised", error |-> "logger"]
          /\ Len(log) = 1

\* a match with moves, logged and returned
C36_Witness ==
    /\ pc = "Finished"
    /\ result.status = "returned"
    /\ result.moves >= 2
    /\ notes[0].asked > 0 /\ notes[1].asked > 0
    /\ log = <<MatchRecord(result)>>

\* the logger raised after the agents' game_end
C36_WitnessLogger ==
    /\ pc = "Aborted"
    /\ result = [status |-> "raised", error |-> "logger"]
    /\ notes[0].asked > 0
    /\ Len(notes[0].end) = 1
    /\ Len(log) = 1


\* the applied moves that have no entry in moves_history
Unrecorded == (Len(states_history) - 1) - Len(moves_history)

\* C37 (Spec): the counters of a first run_match.  Between the iterations of
\* the loop and after it, len(move_times) = len(moves_history) <=
\* len(states_history) - 1 = move_count <= max_moves, and the reported
\* result['moves'] is len(moves_history); an accepted turn adds a move entry,
\* a time sample and a snapshot, a rejected turn adds the snapshot only, so
\* the two lengths agree exactly as long as no turn was rejected.
C37_Counts ==
    /\ [](pc \in {"Running", "Logging", "Finished", "Aborted"} =>
            /\ Len(move_times) = Len(moves_history)
            /\ Len(moves_history) <= Len(states_history) - 1
            /\ Len(states_history) - 1 = move_count
            /\ move_count <= max_moves
            /\ result.status \in {"pending", "returned"} =>
                  /\ result.moves = Len(moves_history)
                  /\ result.moves <= max_moves)
    /\ [][(pc = "Running" /\ LoopCondition) =>
            /\ turn'.kind \in {"accepted", "rejected"}
            /\ move_count' = move_count + 1
            /\ Len(states_history') = Len(states_history) + 1
            /\ turn'.kind = "accepted" =>
                  /\ Len(moves_history') = Len(moves_history) + 1
                  /\ Len(move_times') = Len(move_times) + 1
                  /\ Unrecorded' = Unrecorded
            /\ turn'.kind = "rejected" =>
                  /\ moves_history' = moves_history
                  /\ move_times' = move_times
                  /\ Unrecorded' = Unrecorded + 1]_vars

\* a match that reached the cap with accepted and rejected turns
C37_Witness ==
    /\ pc = "Finished"
    /\ move_count = max_moves
    /\ Len(moves_history) >= 1
    /\ Unrecorded >= 1
    /\ result.moves = Len(moves_history)

\* a match without a rejected turn
C37_WitnessAllAccepted ==
    /\ pc = "Finished"
    /\ move_count >= 3
    /\ Unrecorded = 0
    /\ result.moves = move_count


\* the number of cells of board s that hold the mark `mark`
Marks(s, mark) == Cardinality({x \in DOMAIN s : s[x] = mark})

\* C38 (Spec): in a Gomoku or Connect4 match, whatever the agents do,
\* consecutive snapshots states_history[k] and states_history[k + 1] (k
\* counted from 0) differ in exactly one cell, which changes from 0 to
\* (k mod 2) + 1; hence every snapshot holds equally many marks of both
\* players or exactly one more of player index 0.
C38_OneCellPerSnapshot ==
    /\ \A k \in 1 .. Len(states_history) - 1 :
          \E x \in Cells(game) :
             /\ Diff(states_history[k], states_history[k + 1]) = {x}
             /\ states_history[k][x] = 0
             /\ states_history[k + 1][x] = ((k - 1) % 2) + 1
    /\ \A k \in DOMAIN states_history :
          Marks(states_history[k], 1) - Marks(states_history[k], 2) \in {0, 1}

\* a Connect4 match with accepted and rejected turns
C38_Witness ==
    /\ pc = "Finished"
    /\ game.name = "Connect4"
    /\ Len(states_history) >= 5
    /\ Len(moves_history) \in 1 .. Len(states_history) - 2
    /\ Marks(Last(states_history), 1) = Marks(Last(states_history), 2)

\* a Gomoku match in which an agent raised and another returned a move
C38_WitnessGomoku ==
    /\ pc = "Running"
    /\ game.name = "Gomoku"
    /\ Len(states_history) = 4
    /\ turn.kind = "rejected" /\ turn.response = "raise"
    /\ Len(moves_history) >= 1
    /\ Marks(state, 1) = Marks(state, 2) + 1


\* C39 (SpecDuel, Spec): in every state of a Gomoku or Connect4 match at most one
\* player has a winning line, and when the final state has a winner, the
\* winner is the player whose mark the last applied move (accepted or
\* fallback) placed.
C39_SingleWinner ==
    /\ \A k \in DOMAIN states_history :
          ~(HasWindow(game, states_history[k], 1) /\ HasWindow(game, states_history[k], 2))
    /\ pc \in {"Running", "Logging", "Finished", "Aborted"} =>
          ~(HasWindow(game, state, 1) /\ HasWindow(game, state, 2))
    /\ (pc \in {"Logging", "Finished"} /\ result.winner # None) =>
          LET n == Len(states_history)
          IN  /\ n >= 2
              /\ turn.kind \in {"accepted", "rejected"}
              /\ result.winner = <<turn.player>>
              /\ result.winner = GetWinner(game, state)
              /\ \E x \in Cells(game) :
                    /\ Diff(states_history[n - 1], states_history[n]) = {x}
                    /\ states_history[n][x] = turn.player + 1
                    /\ Lands(game, states_history[n - 1], turn.applied, x)
              /\ ~HasWindow(game, states_history[n - 1], turn.player + 1)

\* player index 1 wins, its winning mark placed by a fallback move
C39_Witness ==
    /\ pc = "Finished"
    /\ result.winner = <<1>>
    /\ turn.kind = "rejected"
    /\ turn.player = 1
    /\ HasWindow(game, state, 2)
    /\ ~HasWindow(game, state, 1)

\* player index 0 wins, its winning mark placed by an accepted move
C39_WitnessAccepted ==
    /\ pc = "Finished"
    /\ game.name = "Connect4"
    /\ result.winner = <<0>>
    /\ turn.kind = "accepted"
    /\ turn.player = 0
    /\ move_count = 5

====
